---------------------------- MODULE Spec2Model ----------------------------
(***************************************************************************)
(* A model of the LinkedIn Easy Apply bot:                                 *)
(*   linkedin_easy_apply_improved.py  (field detection, modal traversal,   *)
(*                                     job loop, CSV output)               *)
(*   automation.py                    (the earlier bot: job loop, CSV)     *)
(*                                                                         *)
(* A text is a sequence of tokens whose concatenation is the string: a     *)
(* token is a character or a word fragment, so that "substring" is         *)
(* "contiguous subsequence" and strip() removes whitespace tokens at both  *)
(* ends.                                                                   *)
(***************************************************************************)
EXTENDS Integers, Sequences, FiniteSets, TLC

VARIABLES
    \* the browser: the application modal, the pages it is going to show and
    \* the monotonic clock (seconds)
    modal, wizard, clock,
    \* the frame of one call of process_modal_with_timeout; acted is what the
    \* pass through the loop did to the browser, caught the browser operations
    \* that raised during the pass, exit_reason why the loop ended
    args, mpc, start_time, max_duration, seen_states, loop_count, current_state,
    acted, caught, exit_reason, result,
    \* one call of process_form_fields
    section, fenv, fpc, did_fill, asked,
    \* one call of is_field_empty
    field, empty_ret,
    \* one call of another function: its arguments and what the calls it makes
    \* will do, then what it returned
    call, ppc, ret,
    \* a run of a bot (main): pc is the place in main, csv the output file
    bot, pc, MAX_APPLIES, MODAL_TIMEOUT, count, prev_count, scroll_attempts, total, i,
    title, company, link, job_start, results, csv,
    \* for each row of results, the job it was recorded for and its wizard;
    \* the wizard of the current job; the runs so far; how the handling of
    \* the last job of the newer bot began
    row_jobs, job_wizard, runs, job_outcome

browserVars == <<modal, wizard, clock>>
modalVars   == <<args, mpc, start_time, max_duration, seen_states, loop_count,
                 current_state, acted, caught, exit_reason, result>>
fieldVars   == <<section, fenv, fpc, did_fill, asked>>
emptyVars   == <<field, empty_ret>>
pureVars    == <<call, ppc, ret>>
mainVars    == <<bot, pc, MAX_APPLIES, MODAL_TIMEOUT, count, prev_count, scroll_attempts, total, i,
                 title, company, link, job_start, results, csv,
                 row_jobs, job_wizard, runs, job_outcome>>
vars        == <<browserVars, modalVars, fieldVars, emptyVars, pureVars, mainVars>>

---------------------------------------------------------------------------
(* Bounds of the model *)

\* the longest field value drawn for is_field_empty
MaxLen == 3
\* the most form fields of one section
MaxFields == 2
\* the numbered pages a wizard can show
MaxStep == 21
\* the clock advances by TickSeconds at a time, up to MaxClock
TickSeconds == 300
MaxClock == 300
\* the largest MAX_APPLIES configured, the most job cards the list shows, the
\* runs of a bot on one output file
MaxApplies == 2
MaxCards == 2
MaxRuns == 2

---------------------------------------------------------------------------
(* Texts *)

Whitespace == {" ", "\t", "\n"}
Digits     == {"0", "1", "2", "3", "4", "5", "6", "7", "8", "9"}

Range(s) == {s[k] : k \in DOMAIN s}

\* str.lower() on one token
LowerTok(t) ==
    CASE t = "Yes"      -> "yes"
      [] t = "No"       -> "no"
      [] t = "Year"     -> "year"
      [] t = "Resume"   -> "resume"
      [] t = "Contact"  -> "contact"
      [] t = "Question" -> "question"
      [] t = "Next"     -> "next"
      [] t = "Review"   -> "review"
      [] t = "Submit"   -> "submit"
      [] t = "Select"   -> "select"
      [] t = "Cancel"   -> "cancel"
      [] t = "Dismiss"  -> "dismiss"
      [] t = "Close"    -> "close"
      [] t = "Continue" -> "continue"
      [] t = "Save"     -> "save"
      [] t = "Step"     -> "step"
      [] t = "Cover"    -> "cover"
      [] t = "Education" -> "education"
      [] t = "Additional" -> "additional"
      [] t = "Will"     -> "will"
      [] t = "Visa"     -> "visa"
      [] t = "Sponsor"  -> "sponsor"
      [] t = "Why"      -> "why"
      [] t = "Immediately" -> "immediately"
      [] t = "Bachelor's"  -> "bachelor's"
      [] t = "Degree"   -> "degree"
      [] t = "I"        -> "i"
      [] t = "N"        -> "n"
      [] t = "A"        -> "a"
      [] OTHER          -> t

\* str.lower()
Lower(s) == [k \in DOMAIN s |-> LowerTok(s[k])]

\* str.strip(): drop the whitespace at both ends
RECURSIVE LStrip(_)
LStrip(s) == IF s # <<>> /\ Head(s) \in Whitespace THEN LStrip(Tail(s)) ELSE s

RECURSIVE RStrip(_)
RStrip(s) ==
    IF s # <<>> /\ s[Len(s)] \in Whitespace THEN RStrip(SubSeq(s, 1, Len(s) - 1)) ELSE s

Strip(s) == RStrip(LStrip(s))

\* needle in hay
Contains(hay, needle) ==
    \E k \in 1..(Len(hay) - Len(needle) + 1) :
        SubSeq(hay, k, k + Len(needle) - 1) = needle

\* any(word in text for word in words)
ContainsAny(text, words) == \E w \in words : Contains(text, w)

\* str.isdigit() on the characters of the model, which are ASCII
IsDigit(s) == s # <<>> /\ \A k \in DOMAIN s : s[k] \in Digits

---------------------------------------------------------------------------
(* is_field_empty *)

\* What field.input_value() does: it returns a text, returns None, or raises.
ReadOk(v)  == [status |-> "ok", value |-> v]
ReadNone   == [status |-> "none", value |-> <<>>]
ReadRaises == [status |-> "raise", value |-> <<>>]

is_field_empty_no_strip(read) ==
    IF read.status = "raise" THEN TRUE
    ELSE LET current_value == IF read.status = "none" THEN <<>> ELSE read.value
         IN  current_value = <<>>

\* every field taken for empty: a mutation of is_field_empty
is_field_empty_always(read) == TRUE

is_field_empty(read) ==
    IF read.status = "raise" THEN TRUE
    ELSE LET current_value == IF read.status = "none" THEN <<>> ELSE read.value
         IN  Strip(current_value) = <<>>

---------------------------------------------------------------------------
(* Answers *)

\* ANSWER_MAP, in the order of the dict
ANSWER_MAP == <<
    [key |-> <<"legally", " ", "authorized", " ", "to", " ", "work">>, val |-> <<"Yes">>],
    [key |-> <<"require", " ", "sponsor", "ship">>,                    val |-> <<"No">>],
    [key |-> <<"relocate">>,                                           val |-> <<"Yes">>],
    [key |-> <<"minimum", " ", "salary">>,                             val |-> <<"0">>],
    [key |-> <<"start", " ", "date">>,                                 val |-> <<"Immediately">>],
    [key |-> <<"year", "s", " ", "of", " ", "experience">>,            val |-> <<"0">>],
    [key |-> <<"notice", " ", "period">>,                              val |-> <<"Immediately">>],
    [key |-> <<"willing", " ", "to", " ", "relocate">>,                val |-> <<"Yes">>],
    [key |-> <<"authorized", " ", "to", " ", "work">>,                 val |-> <<"Yes">>],
    [key |-> <<"visa", " ", "sponsor", "ship">>,                       val |-> <<"No">>] >>

\* the sentence get_smart_fallback gives for a cover letter
CoverSentence ==
    << "I", " ", "am", " ", "excited", " ", "about", " ", "this", " ", "opportunity", " ",
       "and", " ", "believe", " ", "my", " ", "skills", " ", "align", " ", "well", " ",
       "with", " ", "the", " ", "requirements", "." >>

\* get_smart_fallback with the sponsorship words tested first: a mutation
get_smart_fallback_sponsor_first(question) ==
    LET q_lower == Lower(question) IN
    IF ContainsAny(q_lower, { <<"sponsor">>, <<"visa">>, <<"h1b">> }) THEN <<"No">>
    ELSE IF ContainsAny(q_lower, { <<"year">>, <<"experience">>, <<"salary">>, <<"number">> })
    THEN <<"0">>
    ELSE IF ContainsAny(q_lower, { <<"authorized">>, <<"eligible">>, <<"legal">> })
    THEN <<"Yes">>
    ELSE IF ContainsAny(q_lower, { <<"relocate">>, <<"move">>, <<"willing">> }) THEN <<"Yes">>
    ELSE IF ContainsAny(q_lower, { <<"start">>, <<"available">>, <<"notice">> })
    THEN <<"Immediately">>
    ELSE IF ContainsAny(q_lower, { <<"degree">>, <<"education">>, <<"university">> })
    THEN <<"Bachelor's", " ", "Degree">>
    ELSE IF ContainsAny(q_lower, { <<"cover", " ", "letter">>, <<"why">>, <<"interest">> })
    THEN CoverSentence
    ELSE <<"Yes">>

\* get_smart_fallback(question), lines 111-130
get_smart_fallback(question) ==
    LET q_lower == Lower(question) IN
    IF ContainsAny(q_lower, { <<"year">>, <<"experience">>, <<"salary">>, <<"number">> })
    THEN <<"0">>
    ELSE IF ContainsAny(q_lower, { <<"authorized">>, <<"eligible">>, <<"legal">> })
    THEN <<"Yes">>
    ELSE IF ContainsAny(q_lower, { <<"sponsor">>, <<"visa">>, <<"h1b">> }) THEN <<"No">>
    ELSE IF ContainsAny(q_lower, { <<"relocate">>, <<"move">>, <<"willing">> }) THEN <<"Yes">>
    ELSE IF ContainsAny(q_lower, { <<"start">>, <<"available">>, <<"notice">> })
    THEN <<"Immediately">>
    ELSE IF ContainsAny(q_lower, { <<"degree">>, <<"education">>, <<"university">> })
    THEN <<"Bachelor's", " ", "Degree">>
    ELSE IF ContainsAny(q_lower, { <<"cover", " ", "letter">>, <<"why">>, <<"interest">> })
    THEN CoverSentence
    ELSE <<"Yes">>

\* The language model as a function sees it: lm is what its calls do, one
\* after the other, a reply or an exception; the calls after the last one
\* of lm raise.
Reply(content) == [ok |-> TRUE, content |-> content]
LmRaises       == [ok |-> FALSE, content |-> <<>>]

LmOutcome(lm, n) == IF n <= Len(lm) THEN lm[n] ELSE LmRaises

DEFAULT_MAX_RETRIES == 3

\* the replies drawn for the language model
TextAnswers == { <<"7">>, <<"n", "/", "a">> }

\* the attempts of answer_text_with_retry from `attempt` on, lines 134-158
RECURSIVE TextAttempts(_, _, _, _)
TextAttempts(q, max_retries, lm, attempt) ==
    IF attempt >= max_retries
    THEN [value |-> get_smart_fallback(q), calls |-> attempt]
    ELSE LET o == LmOutcome(lm, attempt + 1) IN
         IF o.ok THEN [value |-> Strip(o.content), calls |-> attempt + 1]
         ELSE IF attempt = max_retries - 1
         THEN [value |-> get_smart_fallback(q), calls |-> attempt + 1]
         ELSE TextAttempts(q, max_retries, lm, attempt + 1)

\* answer_text_with_retry with one attempt too many: a mutation
answer_text_one_more(q, max_retries, lm) == TextAttempts(q, max_retries + 1, lm, 0)

\* answer_text_with_retry(q, max_retries): the value returned and the number
\* of calls of the language model made
answer_text_with_retry(q, max_retries, lm) == TextAttempts(q, max_retries, lm, 0)

\* the first of the options at the positions of fits, or None
FirstOption(options, fits) ==
    IF fits = {} THEN <<"None">>
    ELSE options[CHOOSE k \in fits : \A j \in fits : k <= j]

\* the loop over ANSWER_MAP left out: a mutation
MappedOptionNone(map, q, options) == <<"None">>

\* the loop over ANSWER_MAP of answer_select_with_retry, lines 165-170
RECURSIVE MappedOption(_, _, _)
MappedOption(map, q, options) ==
    IF map = <<>> THEN <<"None">>
    ELSE LET key == Head(map).key
             val == Head(map).val
             hit == IF Contains(Lower(q), key)
                    THEN FirstOption(options, { k \in DOMAIN options :
                                                Contains(Lower(options[k]), Lower(val)) })
                    ELSE <<"None">>
         IN  IF hit # <<"None">> THEN hit ELSE MappedOption(Tail(map), q, options)

\* the attempts of answer_select_with_retry from `attempt` on, lines 172-207
RECURSIVE SelectAttempts(_, _, _, _, _)
SelectAttempts(q, options, max_retries, lm, attempt) ==
    IF attempt >= max_retries
    THEN [value |-> options[1], calls |-> attempt]
    ELSE LET o == LmOutcome(lm, attempt + 1) IN
         IF o.ok
         THEN LET answer == Strip(o.content)
                  hit == FirstOption(options, { k \in DOMAIN options :
                           \/ Contains(Lower(options[k]), Lower(answer))
                           \/ Contains(Lower(answer), Lower(options[k])) })
              IN  [value |-> IF hit # <<"None">> THEN hit ELSE options[1],
                   calls |-> attempt + 1]
         ELSE IF attempt = max_retries - 1
         THEN LET fallback == get_smart_fallback(q)
                  hit == FirstOption(options, { k \in DOMAIN options :
                           Contains(Lower(options[k]), Lower(fallback)) })
              IN  [value |-> IF hit # <<"None">> THEN hit ELSE options[1],
                   calls |-> attempt + 1]
         ELSE SelectAttempts(q, options, max_retries, lm, attempt + 1)

\* answer_select_with_retry returning the reply as it is: a mutation
answer_select_reply(q, options, max_retries, lm) ==
    IF options = <<>> THEN [value |-> <<>>, calls |-> 0]
    ELSE IF max_retries >= 1 /\ LmOutcome(lm, 1).ok
    THEN [value |-> Strip(LmOutcome(lm, 1).content), calls |-> 1]
    ELSE SelectAttempts(q, options, max_retries, lm, 0)

\* answer_select_with_retry(q, options, max_retries), lines 160-209: the value
\* returned and the number of calls of the language model made
answer_select_with_retry(q, options, max_retries, lm) ==
    IF options = <<>> THEN [value |-> <<>>, calls |-> 0]
    ELSE LET mapped == MappedOption(ANSWER_MAP, q, options) IN
         IF mapped # <<"None">> THEN [value |-> mapped, calls |-> 0]
         ELSE SelectAttempts(q, options, max_retries, lm, 0)

---------------------------------------------------------------------------
(* process_form_fields *)

None == <<"None">>

IsSelectable(opt) ==
    /\ opt.value # None /\ opt.value # <<>>
    /\ Strip(opt.text) # <<>>
    /\ Lower(Strip(opt.text)) \notin { <<"select">>, <<"choose">>, <<"pick">> }

\* the option texts offered for a select
SelectOptions(f) ==
    LET kept == SelectSeq(f.options, IsSelectable)
    IN  [k \in DOMAIN kept |-> Strip(kept[k].text)]

\* sel.select_option(label=ans): the value of the first option with that label
RECURSIVE OptionValue(_, _)
OptionValue(opts, ans) ==
    IF opts = <<>> THEN <<>>
    ELSE IF Strip(Head(opts).text) = ans THEN Head(opts).value
    ELSE OptionValue(Tail(opts), ans)

\* the positions of the fields that `Keep` accepts, in document order
RECURSIVE Positions(_, _, _)
Positions(fields, Keep(_), k) ==
    IF k > Len(fields) THEN <<>>
    ELSE (IF Keep(fields[k]) THEN <<k>> ELSE <<>>) \o Positions(fields, Keep, k + 1)

\* sel.select_option(label=ans) on the select at k, lines 343-349
SelectOption(st, env, k, ans) ==
    IF k \in env.fillFails
    THEN [st EXCEPT !.asked = @ \cup {k}, !.raised = TRUE]
    ELSE [st EXCEPT !.fields[k].value = OptionValue(st.fields[k].options, ans),
                    !.did_fill = TRUE,
                    !.asked = @ \cup {k}]

\* the selects of the section, lines 321-351
RECURSIVE SelectPass(_, _, _, _)
SelectPass(st, label, env, k) ==
    IF k > Len(st.fields) THEN st
    ELSE LET f == st.fields[k] IN
         IF f.type # "select" THEN SelectPass(st, label, env, k + 1)
         ELSE IF k \in env.readFails
              THEN SelectPass([st EXCEPT !.raised = TRUE], label, env, k + 1)
         ELSE IF Strip(f.value) # <<>> THEN SelectPass(st, label, env, k + 1)
         ELSE LET options == SelectOptions(f) IN
              IF options = <<>> THEN SelectPass(st, label, env, k + 1)
              ELSE SelectPass(
                     SelectOption(st, env, k,
                                  answer_select_with_retry(label, options, DEFAULT_MAX_RETRIES,
                                                           env.lm).value),
                     label, env, k + 1)

\* the labels collected for a radio group, lines 370-382
RECURSIVE GroupLabels(_, _)
GroupLabels(fields, group) ==
    IF group = <<>> THEN <<>>
    ELSE LET r == fields[Head(group)]
         IN  (IF r.hasLabel THEN <<Strip(r.label)>>
              ELSE IF r.value # <<>> THEN <<r.value>> ELSE <<>>)
             \o GroupLabels(fields, Tail(group))

\* the first radio of the group whose label contains the choice, lines 389-401
RECURSIVE ChosenRadio(_, _, _)
ChosenRadio(fields, group, choice) ==
    IF group = <<>> THEN 0
    ELSE LET r == fields[Head(group)] IN
         IF r.hasLabel /\ Contains(Lower(Strip(r.label)), Lower(choice))
         THEN Head(group)
         ELSE ChosenRadio(fields, Tail(group), choice)

\* group_radio.check(): the radio is checked and the others of its name are not
Check(fields, j) ==
    [k \in DOMAIN fields |->
        IF k = j THEN [fields[k] EXCEPT !.checked = TRUE]
        ELSE IF fields[k].type = "radio" /\ fields[k].name = fields[j].name
             THEN [fields[k] EXCEPT !.checked = FALSE]
             ELSE fields[k]]

\* group_radio.check() on the radio at j chosen for the group of the radio
\* at k, lines 389-401; j = 0 when no label holds the choice
CheckRadio(st, k, j) ==
    IF j = 0 THEN [st EXCEPT !.asked = @ \cup {k}]
    ELSE [st EXCEPT !.asked = @ \cup {k},
                    !.fields = Check(st.fields, j),
                    !.did_fill = TRUE]

\* the radio groups of the section, lines 353-406
RECURSIVE RadioPass(_, _, _, _, _)
RadioPass(st, processed_groups, label, env, k) ==
    IF k > Len(st.fields) THEN st
    ELSE LET radio == st.fields[k] IN
         IF radio.type # "radio" THEN RadioPass(st, processed_groups, label, env, k + 1)
         ELSE IF radio.name \in processed_groups
              THEN RadioPass(st, processed_groups, label, env, k + 1)
         ELSE LET done == processed_groups \cup {radio.name} IN
              IF radio.checked THEN RadioPass(st, done, label, env, k + 1)
              ELSE LET InGroup(f) == f.type = "radio" /\ f.name = radio.name
                       group_radios == Positions(st.fields, InGroup, 1)
                       labels == GroupLabels(st.fields, group_radios)
                   IN  IF labels = <<>> THEN RadioPass(st, done, label, env, k + 1)
                       ELSE RadioPass(
                              CheckRadio(st, k,
                                ChosenRadio(st.fields, group_radios,
                                  answer_select_with_retry(label, labels, DEFAULT_MAX_RETRIES,
                                                           env.lm).value)),
                              done, label, env, k + 1)

\* FillNumber filling the reply as it comes, line 426 left out: a mutation
FillNumberUnchecked(st, env, k, byLabel, reply) ==
    LET ans == IF byLabel THEN <<"0">> ELSE reply
        st1 == [st EXCEPT !.asked = IF byLabel THEN @ ELSE @ \cup {k},
                          !.raised = @ \/ k \in env.readFails \/ k \in env.fillFails]
    IN  IF k \in env.fillFails THEN st1
        ELSE [st1 EXCEPT !.fields[k].value = ans, !.did_fill = TRUE]

\* the answer for the number input at k and num.fill(ans), lines 418-434:
\* "0" by the label, else the reply when it is made of digits, else "0"
FillNumber(st, env, k, byLabel, reply) ==
    LET ans == IF byLabel THEN <<"0">>
               ELSE IF IsDigit(reply) THEN reply ELSE <<"0">>
        st1 == [st EXCEPT !.asked = IF byLabel THEN @ ELSE @ \cup {k},
                          !.raised = @ \/ k \in env.readFails \/ k \in env.fillFails]
    IN  IF k \in env.fillFails THEN st1
        ELSE [st1 EXCEPT !.fields[k].value = ans, !.did_fill = TRUE]

\* the number inputs of the section, lines 408-436
RECURSIVE NumberPass(_, _, _, _)
NumberPass(st, label, env, k) ==
    IF k > Len(st.fields) THEN st
    ELSE LET num == st.fields[k] IN
         IF num.type # "number" THEN NumberPass(st, label, env, k + 1)
         ELSE IF ~is_field_empty(IF k \in env.readFails THEN ReadRaises ELSE ReadOk(num.value))
              THEN NumberPass(st, label, env, k + 1)
         ELSE NumberPass(
                FillNumber(st, env, k,
                           ContainsAny(Lower(Strip(label)),
                                       { <<"year">>, <<"experience">>, <<"salary">> }),
                           answer_text_with_retry(Strip(label), DEFAULT_MAX_RETRIES,
                                                  env.lm).value),
                label, env, k + 1)

\* the value of the first key of ANSWER_MAP contained in lw, or None
RECURSIVE MappedAnswer(_, _)
MappedAnswer(map, lw) ==
    IF map = <<>> THEN None
    ELSE IF Contains(lw, Head(map).key) THEN Head(map).val
    ELSE MappedAnswer(Tail(map), lw)

\* the answer for the text field at k and fld.fill(ans), lines 448-468: the
\* value of ANSWER_MAP when a key is in the label, else the reply
FillText(st, env, k, val, reply) ==
    LET mapped == val # None
        ans == IF mapped THEN val ELSE reply
        st1 == [st EXCEPT !.asked = IF mapped THEN @ ELSE @ \cup {k},
                          !.raised = @ \/ k \in env.readFails \/ k \in env.fillFails]
    IN  IF k \in env.fillFails THEN st1
        ELSE [st1 EXCEPT !.fields[k].value = ans, !.did_fill = TRUE]

\* the textareas and text inputs of the section, lines 438-470
RECURSIVE TextPass(_, _, _, _)
TextPass(st, label, env, k) ==
    IF k > Len(st.fields) THEN st
    ELSE LET fld == st.fields[k] IN
         IF fld.type # "text" THEN TextPass(st, label, env, k + 1)
         ELSE IF ~is_field_empty(IF k \in env.readFails THEN ReadRaises ELSE ReadOk(fld.value))
              THEN TextPass(st, label, env, k + 1)
         ELSE TextPass(
                FillText(st, env, k,
                         MappedAnswer(ANSWER_MAP, Lower(Strip(label))),
                         answer_text_with_retry(Strip(label), DEFAULT_MAX_RETRIES,
                                                env.lm).value),
                label, env, k + 1)

\* process_form_fields(section): the fields after the call, whether one was
\* filled, the fields an answer function was called for, and whether a call
\* on a field raised and was caught inside.  env holds what
\* the call cannot decide: the fields whose input_value() raises, the fields
\* whose fill() or select_option() raises, and the answers drawn.
process_form_fields(sec, env) ==
    TextPass(
      NumberPass(
        RadioPass(
          SelectPass([fields |-> sec.fields, did_fill |-> FALSE, asked |-> {},
                      raised |-> FALSE],
                     sec.label, env, 1),
          {}, sec.label, env, 1),
        sec.label, env, 1),
      sec.label, env, 1)

---------------------------------------------------------------------------
(* The sections process_form_fields is called on *)

YesNoOptions == <<
    [value |-> <<>>,      text |-> <<"Select">>],
    [value |-> <<"yes">>, text |-> <<"Yes">>],
    [value |-> <<"no">>,  text |-> <<"No">>] >>

Select(v) ==
    [type |-> "select", value |-> v, options |-> YesNoOptions,
     name |-> "", hasLabel |-> FALSE, label |-> <<>>, checked |-> FALSE]

Radio(n, v, l, c) ==
    [type |-> "radio", value |-> v, options |-> <<>>,
     name |-> n, hasLabel |-> TRUE, label |-> l, checked |-> c]

Number(v) ==
    [type |-> "number", value |-> v, options |-> <<>>,
     name |-> "", hasLabel |-> FALSE, label |-> <<>>, checked |-> FALSE]

Text(v) ==
    [type |-> "text", value |-> v, options |-> <<>>,
     name |-> "", hasLabel |-> FALSE, label |-> <<>>, checked |-> FALSE]

FieldChoices ==
    { Select(<<>>), Select(<<"yes">>) }
    \cup { Radio("radio1", <<"yes">>, <<"Yes">>, c) : c \in BOOLEAN }
    \cup { Radio("radio1", <<"no">>, <<"No">>, c) : c \in BOOLEAN }
    \cup { Number(<<>>), Number(<<" ">>), Number(<<"2">>) }
    \cup { Text(<<>>), Text(<<"a">>) }

LabelChoices == {
    <<"Year", "s", " ", "of", " ", "experience">>,
    <<" ", "Cover", " ", "letter">> }

\* the values a text or number field can be filled with
FilledValues ==
    TextAnswers \cup { <<"No">>, <<"0">>, <<"Yes">>, <<"Immediately">>,
                       <<"Bachelor's", " ", "Degree">>, CoverSentence }

\* what the language model does during one call of process_form_fields: all
\* its calls raise, or its first call gives a reply
LmBehaviours == { <<>> } \cup { << Reply(a) >> : a \in TextAnswers \cup { <<"No">> } }

\* a browser keeps at most one radio of a name checked
RadiosValid(fields) ==
    \A j, k \in DOMAIN fields :
        (/\ fields[j].type = "radio" /\ fields[k].type = "radio"
         /\ fields[j].name = fields[k].name
         /\ fields[j].checked /\ fields[k].checked) => j = k

FieldLists(n) ==
    { fs \in UNION { [1..m -> FieldChoices] : m \in 0..n } : RadiosValid(fs) }

Sections(n) == { [label |-> l, fields |-> fs] : l \in LabelChoices, fs \in FieldLists(n) }

\* what one call of process_form_fields cannot decide
FieldEnvs(sec) ==
    [readFails : SUBSET DOMAIN sec.fields, fillFails : SUBSET DOMAIN sec.fields,
     lm : LmBehaviours]

NoFaults == [readFails |-> {}, fillFails |-> {}, lm |-> << Reply(<<"7">>) >>]

IdleFields ==
    /\ section = [label |-> <<>>, fields |-> <<>>]
    /\ fenv = NoFaults
    /\ fpc = "idle"
    /\ did_fill = FALSE
    /\ asked = {}

IdleEmpty ==
    /\ field = ReadNone
    /\ empty_ret = "none"

IdlePure ==
    /\ call = <<>>
    /\ ppc = "idle"
    /\ ret = <<>>

\* the call of process_form_fields(section), lines 317-472
CallProcessFormFields ==
    /\ fpc = "call"
    /\ \E out \in {process_form_fields(section, fenv)} :
         /\ section' = [section EXCEPT !.fields = out.fields]
         /\ did_fill' = out.did_fill
         /\ asked' = out.asked
    /\ fpc' = "returned"
    /\ UNCHANGED <<fenv, browserVars, modalVars, emptyVars, pureVars, mainVars>>

---------------------------------------------------------------------------
(* The application modal *)

Button(text, type, aria, cls, visible) ==
    [text |-> text, type |-> type, aria |-> aria, cls |-> cls, visible |-> visible]

\* A page of the modal: whether the dialog is visible, the text of its first
\* header (<<>> when it has none), its buttons and its sections in document
\* order.  A section has a label, fields and the length of its inner text.
Page(header, buttons, sections) ==
    [visible |-> TRUE, header |-> header, buttons |-> buttons, sections |-> sections]

Closed == [visible |-> FALSE, header |-> <<>>, buttons |-> <<>>, sections |-> <<>>]

\* "|".join(texts)
RECURSIVE Join(_, _)
Join(texts, sep) ==
    IF texts = <<>> THEN <<>>
    ELSE IF Len(texts) = 1 THEN Head(texts)
    ELSE Head(texts) \o <<sep>> \o Join(Tail(texts), sep)

\* the stripped texts of the buttons that have one
RECURSIVE ButtonTexts(_)
ButtonTexts(buttons) ==
    IF buttons = <<>> THEN <<>>
    ELSE (IF Strip(Head(buttons).text) # <<>> THEN <<Strip(Head(buttons).text)>> ELSE <<>>)
         \o ButtonTexts(Tail(buttons))

Min(a, b) == IF a < b THEN a ELSE b

\* get_modal_state(modal): header, "::", the texts of the first five buttons
\* joined by "|"; "unknown_state" when reading the modal raises
get_modal_state(m, raises) ==
    IF raises THEN <<"unknown_state">>
    ELSE LET header_text == Strip(m.header)
             button_text == Join(ButtonTexts(SubSeq(m.buttons, 1, Min(Len(m.buttons), 5))), "|")
         IN  header_text \o <<":", ":">> \o button_text

\* a CSS selector of the bot, and whether a button matches it
HasText(t)   == [by |-> "has-text", arg |-> t]
TypeIs(t)    == [by |-> "type", arg |-> t]
AriaHas(t)   == [by |-> "aria-label", arg |-> t]
ClassIs(t)   == [by |-> "class", arg |-> t]

Matches(btn, sel) ==
    CASE sel.by = "has-text"   -> Contains(Lower(btn.text), Lower(sel.arg))
      [] sel.by = "type"       -> btn.type = sel.arg
      [] sel.by = "aria-label" -> Contains(btn.aria, sel.arg)
      [] sel.by = "class"      -> btn.cls = sel.arg

\* modal.locator(selector).first: the position of the first match, 0 for none
RECURSIVE First(_, _, _)
First(buttons, sel, k) ==
    IF k > Len(buttons) THEN 0
    ELSE IF Matches(buttons[k], sel) THEN k
    ELSE First(buttons, sel, k + 1)

\* the first selector of the list whose first match is visible
RECURSIVE FirstVisible(_, _)
FirstVisible(buttons, selectors) ==
    IF selectors = <<>> THEN 0
    ELSE LET k == First(buttons, Head(selectors), 1) IN
         IF k # 0 /\ buttons[k].visible THEN k
         ELSE FirstVisible(buttons, Tail(selectors))

button_configs == <<
    [type |-> "submit",
     selectors |-> << HasText(<<"Submit">>), TypeIs("submit"),
                      HasText(<<"Submit", " ", "application">>), AriaHas(<<"Submit">>) >>],
    [type |-> "review",
     selectors |-> << HasText(<<"Review">>), AriaHas(<<"Review">>),
                      HasText(<<"Review", " ", "application">>) >>],
    [type |-> "next",
     selectors |-> << HasText(<<"Next">>), AriaHas(<<"Next">>), HasText(<<"Continue">>),
                      HasText(<<"Save", " ", "and", " ", "continue">>) >>] >>

RECURSIVE FindButton(_, _)
FindButton(buttons, configs) ==
    IF configs = <<>> THEN [btn |-> 0, type |-> "none"]
    ELSE LET k == FirstVisible(buttons, Head(configs).selectors) IN
         IF k # 0 THEN [btn |-> k, type |-> Head(configs).type]
         ELSE FindButton(buttons, Tail(configs))

\* find_navigation_button(modal): the button found (0 for None) and its type
find_navigation_button(m) == FindButton(m.buttons, button_configs)

cancel_selectors == <<
    HasText(<<"Cancel">>), HasText(<<"Dismiss">>), HasText(<<"Close">>),
    AriaHas(<<"Close">>), ClassIs("artdeco-modal__dismiss") >>

---------------------------------------------------------------------------
(* process_modal_with_timeout(page, modal, max_duration=300) *)

max_loops == 20
DEFAULT_MAX_DURATION == 300

ContactWords  == { <<"contact", " ", "info">>, <<"resume">>, <<"cv">> }

\* QuestionWords with a word more: a mutation
QuestionWordsAndReview == { <<"question">>, <<"education">>, <<"work">>, <<"additional">>,
                            <<"experience">>, <<"review">> }

QuestionWords == { <<"question">>, <<"education">>, <<"work">>, <<"additional">>,
                   <<"experience">> }

\* the objects main and a caller in the declared order pass
DeclaredOrder == [page |-> "Page", modal |-> "Locator"]
MainOrder     == [page |-> "Locator", modal |-> "Page"]

\* nothing done to the browser
NoOps == [click |-> "none", filled |-> FALSE]

\* the while condition, line 481
LoopConditionNoCount ==
    clock - start_time < max_duration

LoopConditionNoTime ==
    loop_count < max_loops

LoopCondition ==
    clock - start_time < max_duration /\ loop_count < max_loops

\* current_state in seen_states, line 490
IsDuplicateNever(state, seen) == FALSE

IsDuplicate(state, seen) == state \in seen

\* the sections a questions page is processed by, lines 515-530: at most ten,
\* each with more than ten characters of text
RECURSIVE ProcessSections(_, _, _)
\* the sections after process_form_fields returned out for the section j
RECURSIVE SectionCalled(_, _, _, _)
SectionCalled(sections, env, j, out) ==
    LET sec == sections[j]
        now == IF sec.chars > 10
               THEN [sections EXCEPT ![j].fields = out.fields]
               ELSE sections
        rest == ProcessSections(now, env, j + 1)
    IN  [sections |-> rest.sections,
         filled   |-> rest.filled \/ (sec.chars > 10 /\ out.did_fill),
         raised   |-> rest.raised \/ (sec.chars > 10 /\ out.raised)]

ProcessSections(sections, env, j) ==
    IF j > Min(Len(sections), 10)
    THEN [sections |-> sections, filled |-> FALSE, raised |-> FALSE]
    ELSE SectionCalled(sections, env, j, process_form_fields(sections[j], env))

\* What one pass through the body of the loop does, lines 484-581, on the
\* modal m with the states seen so far:
\*   exit     "continue", "break" or "return" (return True)
\*   reason   why the loop is left
\*   state    current_state, <<>> when the pass did not get to read it
\*   seen     seen_states afterwards
\*   click    the kind of button clicked ("escape" for the key), or "none"
\*   sections the sections of the modal afterwards
\*   caught   the operations that raised during the pass
\* env holds what the pass cannot decide: the browser call that raises, if
\* one does, and what process_form_fields cannot decide.
Outcome(exit, reason, state, seen, click, sections, filled, raised) ==
    [exit |-> exit, reason |-> reason, state |-> state, seen |-> seen, click |-> click,
     sections |-> sections, filled |-> filled, caught |-> raised]

\* find_navigation_button(modal) during the pass: when the lookups raise,
\* every selector is skipped (lines 287-288) and no button is found
NavFound(m, env) ==
    IF env.raises = "lookup" THEN [btn |-> 0, type |-> "none"]
    ELSE find_navigation_button(m)

\* the operations that raised and were caught before the click: the reading
\* of the state, the lookups of the buttons, the calls on the fields
CaughtInside(state, env, fieldsRaised) ==
    (IF state = <<"unknown_state">> THEN {"state"} ELSE {})
    \cup (IF env.raises = "lookup" THEN {"lookup"} ELSE {})
    \cup (IF fieldsRaised THEN {"fields"} ELSE {})

\* ClickNav taking a click that raised for a click that worked: a mutation
ClickNavIgnoresRaise(nav, state, seen, sections, filled, env, raised) ==
    IF nav.type = "submit"
    THEN Outcome("return", "submitted", state, seen, nav.type, sections, filled,
                 raised \cup (IF env.raises = "click" THEN {"click"} ELSE {}))
    ELSE Outcome("continue", "", state, seen, nav.type, sections, filled,
                 raised \cup (IF env.raises = "click" THEN {"click"} ELSE {}))

\* nav_btn.click() on a questions page or an unrecognised page, lines 533-550
ClickNav(nav, state, seen, sections, filled, env, raised) ==
    IF env.raises = "click"
    THEN Outcome("break", "exception", state, seen, "none", sections, filled,
                 raised \cup {"click"})
    ELSE IF nav.type = "submit"
         THEN Outcome("return", "submitted", state, seen, nav.type, sections, filled, raised)
         ELSE Outcome("continue", "", state, seen, nav.type, sections, filled, raised)

\* the attempt to close the modal, lines 552-577: a cancel button is clicked
\* or Escape is pressed; a lookup or a key press that raises is passed over
CloseAttempt(m, state, seen2, env) ==
    LET k == IF env.raises = "lookup" THEN 0 ELSE FirstVisible(m.buttons, cancel_selectors)
    IN  Outcome("break", "no_nav", state, seen2,
                IF k # 0 THEN "cancel" ELSE "escape", m.sections, FALSE,
                CaughtInside(state, env, FALSE))

\* PageBranch clicking whatever button it finds on a contact page: a mutation
PageBranchContactAny(m, state, seen2, env) ==
    LET header_text == Lower(Strip(m.header))
        nav == NavFound(m, env)
        none == CaughtInside(state, env, FALSE)
    IN
    IF ContainsAny(header_text, ContactWords)
    THEN IF nav.btn # 0
         THEN ClickNav(nav, state, seen2, m.sections, FALSE, env, none)
         ELSE Outcome("break", "no_nav", state, seen2, "none", m.sections, FALSE, none)
    ELSE IF ContainsAny(header_text, QuestionWords)
    THEN LET done == ProcessSections(m.sections, env.fields, 1) IN
         IF nav.btn # 0
         THEN ClickNav(nav, state, seen2, done.sections, done.filled, env,
                       CaughtInside(state, env, done.raised))
         ELSE Outcome("break", "no_nav", state, seen2, "none", done.sections, done.filled,
                      CaughtInside(state, env, done.raised))
    ELSE IF nav.btn # 0
         THEN ClickNav(nav, state, seen2, m.sections, FALSE, env, none)
         ELSE CloseAttempt(m, state, seen2, env)

\* the branch of the pass for the page read, lines 495-577
PageBranch(m, state, seen2, env) ==
    LET header_text == Lower(Strip(m.header))
        nav == NavFound(m, env)
        none == CaughtInside(state, env, FALSE)
    IN
    IF ContainsAny(header_text, ContactWords)
    THEN IF nav.btn # 0 /\ nav.type \in {"next", "review"}
         THEN IF env.raises = "click"
              THEN Outcome("break", "exception", state, seen2, "none", m.sections, FALSE,
                           none \cup {"click"})
              ELSE Outcome("continue", "", state, seen2, nav.type, m.sections, FALSE, none)
         ELSE Outcome("break", "no_nav", state, seen2, "none", m.sections, FALSE, none)
    ELSE IF ContainsAny(header_text, QuestionWords)
    THEN LET done == ProcessSections(m.sections, env.fields, 1) IN
         IF nav.btn # 0
         THEN ClickNav(nav, state, seen2, done.sections, done.filled, env,
                       CaughtInside(state, env, done.raised))
         ELSE Outcome("break", "no_nav", state, seen2, "none", done.sections, done.filled,
                      CaughtInside(state, env, done.raised))
    ELSE IF nav.btn # 0
         THEN ClickNav(nav, state, seen2, m.sections, FALSE, env, none)
         ELSE CloseAttempt(m, state, seen2, env)

LoopBody(m, seen, env) ==
    IF args.modal = "Page" \/ env.raises = "is_visible"
    THEN Outcome("break", "exception", <<>>, seen, "none", m.sections, FALSE, {"is_visible"})
    ELSE IF ~m.visible
    THEN Outcome("break", "not_visible", <<>>, seen, "none", m.sections, FALSE, {})
    ELSE
    LET state == get_modal_state(m, env.raises = "state") IN
    IF IsDuplicate(state, seen)
    THEN Outcome("break", "duplicate", state, seen, "none", m.sections, FALSE,
                 IF env.raises = "state" THEN {"state"} ELSE {})
    ELSE IF env.raises = "header"
    THEN Outcome("break", "exception", state, seen \cup {state}, "none", m.sections, FALSE,
                 {"header"})
    ELSE PageBranch(m, state, seen \cup {state}, env)

---------------------------------------------------------------------------
(* The pages the modal shows during a call *)

NumStr == << "1", "2", "3", "4", "5", "6", "7", "8", "9", "10", "11", "12", "13",
             "14", "15", "16", "17", "18", "19", "20", "21", "22", "23", "24", "25" >>

DismissBtn == Button(<<"Dismiss">>, "button", <<"Dismiss">>, "artdeco-modal__dismiss", TRUE)
NextBtn    == Button(<<"Next">>, "button", <<"Continue", " ", "to", " ", "next", " ", "step">>, "", TRUE)
ReviewBtn  == Button(<<"Review">>, "button", <<"Review", " ", "your", " ", "application">>, "", TRUE)
SubmitBtn  == Button(<<"Submit", " ", "application">>, "button", <<"Submit", " ", "application">>, "", TRUE)

ContactHeader  == <<"Contact", " ", "info">>
QuestionHeader == <<"Additional", " ", "Question", "s">>
OtherHeader    == <<"Review", " ", "your", " ", "application">>

\* the section of a questions page: one text field, empty or filled in
QuestionSection(v) ==
    [label |-> <<"Will", " ", "you", " ", "relocate", "?">>, fields |-> <<Text(v)>>,
     chars |-> 18]

NamedPages == {
    Page(ContactHeader,  <<DismissBtn, NextBtn>>,   <<>>),
    Page(ContactHeader,  <<DismissBtn, SubmitBtn>>, <<>>),
    Page(QuestionHeader, <<DismissBtn, ReviewBtn>>, <<QuestionSection(<<>>)>>),
    Page(QuestionHeader, <<DismissBtn, SubmitBtn>>, <<QuestionSection(<<"a">>)>>),
    Page(QuestionHeader, <<DismissBtn>>,            <<QuestionSection(<<>>)>>),
    Page(OtherHeader,    <<DismissBtn, SubmitBtn>>, <<>>),
    Page(OtherHeader,    <<DismissBtn>>,            <<>>),
    Page(<<>>,           <<>>,                      <<>>) }

\* a numbered page: it always shows a visible Next button
StepPage(n) == Page(<<"Step", " ", NumStr[n]>>, <<DismissBtn, NextBtn>>, <<>>)

\* the numbered page a wizard shows next: the first one not yet seen
FreshSteps(seen) ==
    LET new == { n \in 1..MaxStep : get_modal_state(StepPage(n), FALSE) \notin seen }
    IN  IF new = {} THEN {}
        ELSE { StepPage(CHOOSE n \in new : \A k \in new : n <= k) }

\* What the browser shows after the pass clicked: a navigation click leads to
\* the page the wizard planned, or to any page (the same one when the wizard
\* does not advance); closing the dialog may work or not.
Reactions(m, click, seen) ==
    CASE click = "none" -> {m}
      [] click \in {"cancel", "escape"} -> {m, Closed}
      [] OTHER -> IF wizard # <<>> THEN {Head(wizard)}
                  ELSE {m, Closed} \cup NamedPages \cup FreshSteps(seen)

---------------------------------------------------------------------------
(* The steps of a call of process_modal_with_timeout *)

MaxFieldsOf(m) ==
    LET lens == { Len(m.sections[j].fields) : j \in DOMAIN m.sections }
    IN  IF lens = {} THEN 0 ELSE CHOOSE n \in lens : \A k \in lens : k <= n

FieldEnvsN(n) ==
    [readFails : SUBSET (1..n), fillFails : SUBSET (1..n), lm : LmBehaviours]

\* what filling the fields of m cannot decide
FieldEnvsOf(m) ==
    IF MaxFieldsOf(m) = 0
    THEN {NoFaults}
    ELSE FieldEnvsN(MaxFieldsOf(m))

BodyEnvs(m) ==
    [raises : {"none", "is_visible", "state", "header", "lookup", "click"},
     fields : FieldEnvsOf(m)]

\* the test of the while loop, and what follows the loop when it fails,
\* lines 481-482 and 583-589
LoopHead ==
    /\ mpc = "loop"
    /\ IF LoopCondition
       THEN /\ loop_count' = loop_count + 1
            /\ mpc' = "body"
            /\ UNCHANGED <<exit_reason, result>>
       ELSE /\ mpc' = "done"
            /\ exit_reason' = IF loop_count >= max_loops THEN "max_loops" ELSE "timeout"
            /\ result' = "False"
            /\ UNCHANGED loop_count
    /\ acted' = NoOps
    /\ caught' = {}
    /\ current_state' = <<>>
    /\ UNCHANGED <<browserVars, args, start_time, max_duration, seen_states>>
    /\ UNCHANGED <<fieldVars, emptyVars, pureVars, mainVars>>

\* one pass through the body of the loop, lines 484-581, and the return that
\* follows a break
Body ==
    /\ mpc = "body"
    /\ \E env \in BodyEnvs(modal) :
       \E out \in {LoopBody(modal, seen_states, env)} :
         LET m2 == [modal EXCEPT !.sections = out.sections]
         IN  /\ seen_states' = out.seen
             /\ current_state' = out.state
             /\ acted' = [click |-> out.click, filled |-> out.filled]
             /\ caught' = out.caught
             /\ mpc' = IF out.exit = "continue" THEN "loop" ELSE "done"
             /\ exit_reason' = out.reason
             /\ result' = CASE out.exit = "return" -> "True"
                            [] out.exit = "break"  -> "False"
                            [] OTHER               -> result
             /\ \E m3 \in Reactions(m2, out.click, out.seen) :
                  /\ modal' = m3
                  /\ wizard' = IF out.click \in {"next", "review", "submit"} /\ wizard # <<>>
                               THEN Tail(wizard) ELSE wizard
    /\ UNCHANGED <<clock, args, start_time, max_duration, loop_count>>
    /\ UNCHANGED <<fieldVars, emptyVars, pureVars, mainVars>>

\* time passes during a call, or while the older bot works on a wizard
Tick ==
    /\ mpc \in {"loop", "body"} \/ pc = "wizard"
    /\ clock < MaxClock
    /\ clock' = clock + TickSeconds
    /\ UNCHANGED <<modal, wizard, modalVars, fieldVars, emptyVars, pureVars, mainVars>>

IdleMain ==
    /\ bot = "none"
    /\ pc = "idle"
    /\ MAX_APPLIES = 0
    /\ MODAL_TIMEOUT = DEFAULT_MAX_DURATION
    /\ count = 0
    /\ prev_count = 0
    /\ scroll_attempts = 0
    /\ total = 0
    /\ i = 0
    /\ title = <<>>
    /\ company = <<>>
    /\ link = <<>>
    /\ job_start = 0
    /\ results = <<>>
    /\ csv = [exists |-> FALSE, lines |-> <<>>]
    /\ row_jobs = <<>>
    /\ job_wizard = <<>>
    /\ runs = 0
    /\ job_outcome = "none"

IdleModal ==
    /\ modal = Closed
    /\ wizard = <<>>
    /\ clock = 0
    /\ args = DeclaredOrder
    /\ mpc = "idle"
    /\ start_time = 0
    /\ max_duration = DEFAULT_MAX_DURATION
    /\ seen_states = {}
    /\ loop_count = 0
    /\ current_state = <<>>
    /\ acted = NoOps
    /\ caught = {}
    /\ exit_reason = ""
    /\ result = "none"

\* A call in the declared order, process_modal_with_timeout(page, modal), on
\* any modal: the state after lines 476-479
InitModal ==
    /\ modal \in NamedPages \cup {StepPage(1), Closed}
    /\ wizard = <<>>
    /\ clock = 0
    /\ args = DeclaredOrder
    /\ mpc = "loop"
    /\ start_time = clock
    /\ max_duration = DEFAULT_MAX_DURATION
    /\ seen_states = {}
    /\ loop_count = 0
    /\ current_state = <<>>
    /\ acted = NoOps
    /\ caught = {}
    /\ exit_reason = ""
    /\ result = "none"
    /\ IdleFields
    /\ IdleEmpty
    /\ IdlePure
    /\ IdleMain

NextModal == LoopHead \/ Body \/ Tick

SpecModal == InitModal /\ [][NextModal]_vars

\* the call runs: its steps are taken as long as it has not returned
SpecModalFair == SpecModal /\ WF_vars(LoopHead) /\ WF_vars(Body)

---------------------------------------------------------------------------
(* The rows of results and the output file *)

DigitStr == << "0", "1", "2", "3", "4", "5", "6", "7", "8", "9" >>

\* str(n) of a natural number
RECURSIVE ToStr(_)
ToStr(n) ==
    IF n < 10 THEN << DigitStr[n + 1] >>
    ELSE ToStr(n \div 10) \o << DigitStr[(n % 10) + 1] >>

Pad2(n) == IF n < 10 THEN << "0" >> \o ToStr(n) ELSE ToStr(n)

\* datetime.now().strftime("%Y-%m-%d %H:%M:%S"), the wall clock showing
\* midnight when the monotonic clock shows 0
Timestamp(now) ==
    << "2025", "-", "01", "-", "01", " " >>
      \o Pad2((now \div 3600) % 24) \o << ":" >>
      \o Pad2((now \div 60) % 60) \o << ":" >>
      \o Pad2(now % 60)

\* f"{int(time.monotonic() - start_time)} sec"
Duration(start, now) == ToStr(now - start) \o << " ", "sec" >>

\* text.replace(",", " -")
RECURSIVE ReplaceComma(_)
ReplaceComma(s) ==
    IF s = <<>> THEN <<>>
    ELSE (IF Head(s) = "," THEN << " ", "-" >> ELSE << Head(s) >>)
           \o ReplaceComma(Tail(s))

\* the row without a Status: the mutation of ResultRow
ResultRowNoStatus(t, c, l, start, now, success) ==
    [Title       |-> ReplaceComma(t),
     Company     |-> ReplaceComma(c),
     Link        |-> l,
     DateApplied |-> Timestamp(now),
     Runtime     |-> Duration(start, now)]

\* the dict appended to results by the improved bot
ResultRow(t, c, l, start, now, success) ==
    [Title       |-> ReplaceComma(t),
     Company     |-> ReplaceComma(c),
     Link        |-> l,
     DateApplied |-> Timestamp(now),
     Runtime     |-> Duration(start, now),
     Status      |-> IF success THEN << "Success" >> ELSE << "Incomplete" >>]

\* the dict appended to results by the older bot
AutoResultRow(t, c, l, start, now) ==
    [Title       |-> t,
     Company     |-> c,
     Link        |-> l,
     DateApplied |-> Timestamp(now),
     Runtime     |-> Duration(start, now)]

fieldnames     == << "Title", "Company", "Link", "DateApplied", "Runtime", "Status" >>
AutoFieldnames == << "Title", "Company", "Link", "DateApplied", "Runtime" >>

\* csv.DictWriter: the header line, and the line of a row, are the cells in
\* the order of the field names; a missing key gives an empty cell
HeaderLine(names) == [k \in 1..Len(names) |-> << names[k] >>]

RowLine(names, row) ==
    [k \in 1..Len(names) |-> IF names[k] \in DOMAIN row THEN row[names[k]] ELSE <<>>]

RowLines(names, rows) == [k \in 1..Len(rows) |-> RowLine(names, rows[k])]

NoFile == [exists |-> FALSE, lines |-> <<>>]

\* the header on every write: the mutation of AppendCsv
AppendCsvAlwaysHeader(file, names, rows) ==
    [exists |-> TRUE,
     lines  |-> file.lines \o << HeaderLine(names) >> \o RowLines(names, rows)]

\* open(CSV_PATH, "a"), writeheader() if the file did not exist, writerows()
AppendCsv(file, names, rows) ==
    LET file_exists == file.exists
    IN  [exists |-> TRUE,
         lines  |-> file.lines
                      \o (IF ~file_exists THEN << HeaderLine(names) >> ELSE <<>>)
                      \o RowLines(names, rows)]

---------------------------------------------------------------------------
(* main of linkedin_easy_apply_improved.py, from the job list on *)

max_scroll_attempts == 10

\* what the job cards of the list show, from the first card on; None where
\* the element is missing or hidden
Cards == <<
    [title |-> << " ", "Intern", ",", " ", "SWE" >>,
     company |-> << "Acme", ",", " ", "Inc" >>,
     href |-> << "/jobs/view/", "1" >>],
    [title |-> None, company |-> None, href |-> None] >>

\* cards.nth(index)
CardAt(index) == Cards[(index % Len(Cards)) + 1]

\* the wizards an application shows, page after page
ThreeStep == << Page(ContactHeader,  <<DismissBtn, NextBtn>>,   <<>>),
                Page(QuestionHeader, <<DismissBtn, ReviewBtn>>, <<QuestionSection(<<>>)>>),
                Page(OtherHeader,    <<DismissBtn, SubmitBtn>>, <<>>) >>
OneStep   == << Page(OtherHeader,    <<DismissBtn, SubmitBtn>>, <<>>) >>
NoWayOut  == << Page(OtherHeader,    <<DismissBtn>>,            <<>>) >>
\* a wizard that plans nothing after its first page: what a click on Next
\* leads to is the browser's choice, the same page included
Unplanned == << Page(ContactHeader,  <<DismissBtn, NextBtn>>,   <<>>) >>

WizardScripts == { ThreeStep, OneStep, NoWayOut, Unplanned }

\* for i in range(total), with one job too many: the mutation of JobsLeft
JobsLeftOneMore(index, n) == index <= n

\* for i in range(total): whether the loop has a job for index
JobsLeft(index, n) == index < n

\* line 664 with every card of the list taken: a mutation
TotalIsCount(cards, limit) == cards

\* total = min(count, MAX_APPLIES), line 664
Total(cards, limit) == Min(cards, limit)

\* one pass of the scroll loop, lines 643-662, or its end and line 664
Scroll ==
    /\ bot = "improved"
    /\ pc = "scroll"
    /\ IF scroll_attempts < max_scroll_attempts
       THEN \E c \in 0..MaxCards :
              /\ count' = c
              /\ IF c >= MAX_APPLIES
                 THEN /\ total' = Total(c, MAX_APPLIES)
                      /\ pc' = "job"
                      /\ UNCHANGED <<scroll_attempts, prev_count>>
                 ELSE /\ scroll_attempts' = IF c = prev_count THEN scroll_attempts + 1 ELSE 0
                      /\ prev_count' = c
                      /\ UNCHANGED <<total, pc>>
       ELSE /\ total' = Total(count, MAX_APPLIES)
            /\ pc' = "job"
            /\ UNCHANGED <<count, scroll_attempts, prev_count>>
    /\ UNCHANGED <<bot, MAX_APPLIES, MODAL_TIMEOUT, i, title, company, link, job_start, results, csv,
                   row_jobs, job_wizard, runs, job_outcome>>
    /\ UNCHANGED <<browserVars, modalVars, fieldVars, emptyVars, pureVars>>

\* `continue` in the job loop after the job was given up (o tells why),
\* lines 677, 754, 792 and 798, with an exception leaving the loop: a mutation
ContinueLeavesOnError(o, index, n) == IF o = "error" THEN n ELSE index + 1

\* `continue` in the job loop, lines 677, 754, 792 and 798: the next index
Continue(o, index, n) == index + 1

\* the job of index i up to the call of line 758, lines 673-758: the card may
\* be gone, a browser call may raise, no dialog may show; otherwise the
\* traversal is called as process_modal_with_timeout(modal, page)
OpenJob ==
    /\ bot = "improved"
    /\ pc = "job"
    /\ JobsLeft(i, total)
    /\ \E o \in {"card_gone", "error", "no_modal", "modal"}, card \in {CardAt(i)},
          w \in WizardScripts :
         /\ job_outcome' = o
         /\ IF o = "modal"
            THEN /\ title' = IF card.title = None THEN << "hidden", " ", "title" >>
                             ELSE Strip(card.title)
                 /\ company' = IF card.company = None THEN << "hidden", " ", "company" >>
                               ELSE Strip(card.company)
                 /\ link' = IF card.href = None THEN <<>> ELSE card.href
                 /\ modal' = Head(w)
                 /\ wizard' = Tail(w)
                 /\ job_wizard' = w
                 /\ job_start' = clock
                 /\ args' = MainOrder
                 /\ mpc' = "loop"
                 /\ start_time' = clock
                 /\ max_duration' = DEFAULT_MAX_DURATION
                 /\ seen_states' = {}
                 /\ loop_count' = 0
                 /\ current_state' = <<>>
                 /\ acted' = NoOps
                 /\ caught' = {}
                 /\ exit_reason' = ""
                 /\ result' = "none"
                 /\ pc' = "traverse"
                 /\ UNCHANGED i
            ELSE /\ i' = Continue(o, i, total)
                 /\ UNCHANGED <<title, company, link, modal, wizard, job_wizard, job_start,
                                modalVars, pc>>
    /\ UNCHANGED <<bot, MAX_APPLIES, MODAL_TIMEOUT, count, prev_count, scroll_attempts, total, results, csv,
                   row_jobs, runs, clock>>
    /\ UNCHANGED <<fieldVars, emptyVars, pureVars>>

\* after the traversal returned, lines 760-788: the row of the job
RecordJob ==
    /\ bot = "improved"
    /\ pc = "traverse"
    /\ mpc = "done"
    /\ LET success == result = "True"
       IN  results' = Append(results, ResultRow(title, company, link, job_start, clock, success))
    /\ row_jobs' = Append(row_jobs, [job |-> i, wizard |-> job_wizard])
    /\ i' = i + 1
    /\ pc' = "job"
    /\ mpc' = "idle"
    /\ UNCHANGED <<bot, MAX_APPLIES, MODAL_TIMEOUT, count, prev_count, scroll_attempts, total, title, company,
                   link, job_start, csv, job_wizard, runs, job_outcome>>
    /\ UNCHANGED <<browserVars, args, start_time, max_duration, seen_states, loop_count,
                   current_state, acted, caught, exit_reason, result>>
    /\ UNCHANGED <<fieldVars, emptyVars, pureVars>>

\* after the last job, lines 800-807: the rows go to the file
WriteCsv ==
    /\ bot = "improved"
    /\ pc = "job"
    /\ ~JobsLeft(i, total)
    /\ csv' = AppendCsv(csv, fieldnames, results)
    /\ pc' = "end"
    /\ UNCHANGED <<bot, MAX_APPLIES, MODAL_TIMEOUT, count, prev_count, scroll_attempts, total, i, title,
                   company, link, job_start, results, row_jobs, job_wizard, runs, job_outcome>>
    /\ UNCHANGED <<browserVars, modalVars, fieldVars, emptyVars, pureVars>>

---------------------------------------------------------------------------
(* main of automation.py, from the job list on *)

\* ANSWER_MAP of automation.py, in the order of the dict
AUTO_ANSWER_MAP == <<
    [key |-> <<"legally", " ", "authorized", " ", "to", " ", "work">>, val |-> <<"Yes">>],
    [key |-> <<"require", " ", "sponsor", "ship">>,                    val |-> <<"No">>],
    [key |-> <<"relocate">>,                                           val |-> <<"Yes">>],
    [key |-> <<"minimum", " ", "salary">>,                             val |-> <<"0">>],
    [key |-> <<"start", " ", "date">>,                                 val |-> <<"Immediately">>] >>

\* answer_text(q), lines 97-113
answer_text(q, lm) ==
    IF LmOutcome(lm, 1).ok THEN Strip(LmOutcome(lm, 1).content) ELSE <<"N", "/", "A">>

\* answer_select(q, options), lines 115-132: the reply as it came
answer_select(q, options, lm) ==
    IF LmOutcome(lm, 1).ok THEN Strip(LmOutcome(lm, 1).content)
    ELSE IF options # <<>> THEN options[1] ELSE <<>>

NEXT_BTN   == HasText(<<"Next">>)
REVIEW_BTN == HasText(<<"Review">>)
SUBMIT_BTN == HasText(<<"Submit">>)

AutoContactWords  == { <<"contact", " ", "info">>, <<"resume">> }
AutoQuestionWords == { <<"question", "s">>, <<"education">>, <<"work">>, <<"additional">> }

\* modal.locator(selector) resolves strictly: is_visible() raises on several
\* matches and is False on none; click() needs one visible match
StrictVisible(buttons, sel) ==
    LET ps == Positions(buttons, LAMBDA b : Matches(b, sel), 1)
    IN  IF Len(ps) > 1 THEN "raise"
        ELSE IF Len(ps) = 1 /\ buttons[ps[1]].visible THEN "yes"
        ELSE "no"

StrictClick(buttons, sel) == StrictVisible(buttons, sel) = "yes"

\* the label the click lands on, lines 255-259: the radio of the first label
\* with the choice in its text, or the radio itself
RECURSIVE LabelledRadio(_, _, _)
LabelledRadio(fields, choice, k) ==
    IF k > Len(fields) THEN 0
    ELSE IF /\ fields[k].type = "radio" /\ fields[k].hasLabel
            /\ Contains(Lower(fields[k].label), Lower(choice))
         THEN k
         ELSE LabelledRadio(fields, choice, k + 1)

\* the fields of one kind of a section, lines 236-323: every one is answered,
\* whatever it holds; st.crashed when a call raised
RECURSIVE AutoPass(_, _, _, _, _)
AutoPass(st, label, env, kind, k) ==
    IF st.crashed \/ k > Len(st.fields) THEN st
    ELSE LET f  == st.fields[k]
             lw == Lower(label)
         IN
         IF f.type # kind THEN AutoPass(st, label, env, kind, k + 1)
         ELSE CASE kind = "select" ->
                LET kept == SelectSeq(f.options, LAMBDA o : o.value # None /\ o.value # <<>>)
                    opts == [n \in DOMAIN kept |-> Strip(kept[n].text)]
                IN  IF opts = <<>> THEN [st EXCEPT !.crashed = TRUE]
                    ELSE LET ans == answer_select(label, opts, env.lm)
                         IN  \* select_option raises when no option carries the label
                             IF \A n \in DOMAIN opts : opts[n] # ans
                             THEN [st EXCEPT !.crashed = TRUE]
                             ELSE AutoPass([st EXCEPT !.fields[k].value =
                                                          OptionValue(f.options, ans)],
                                           label, env, kind, k + 1)
           [] kind = "radio" ->
                LET rs     == Positions(st.fields, LAMBDA r : r.type = "radio" /\ r.hasLabel, 1)
                    labels == [n \in DOMAIN rs |-> Strip(st.fields[rs[n]].label)]
                    choice == answer_select(label, labels, env.lm)
                    j      == IF labels = <<>> THEN 0 ELSE LabelledRadio(st.fields, choice, 1)
                IN  AutoPass([st EXCEPT !.fields = Check(st.fields, IF j # 0 THEN j ELSE k)],
                             label, env, kind, k + 1)
           [] kind = "number" ->
                LET ans == IF Contains(lw, <<"year">>) /\ Contains(lw, <<"experience">>)
                           THEN <<"0">> ELSE answer_text(label, env.lm)
                IN  AutoPass([st EXCEPT !.fields[k].value = ans], label, env, kind, k + 1)
           [] kind = "text" ->
                LET fill_zero == \/ Contains(lw, <<"year">>) /\ Contains(lw, <<"experience">>)
                                 \/ Contains(lw, <<"year", "s">>) /\ Contains(lw, <<"work">>)
                    mapped    == MappedAnswer(AUTO_ANSWER_MAP, lw)
                    ans       == IF fill_zero THEN <<"0">>
                                 ELSE IF mapped # None THEN mapped
                                 ELSE answer_text(label, env.lm)
                IN  AutoPass([st EXCEPT !.fields[k].value = ans], label, env, kind, k + 1)

\* the sections of a questions page, lines 229-326
RECURSIVE AutoSections(_, _, _)
AutoSections(st, env, j) ==
    IF st.crashed \/ j > Len(st.sections) THEN st
    ELSE LET sec == st.sections[j]
             s0  == [fields |-> sec.fields, crashed |-> FALSE]
             s1  == AutoPass(s0, Strip(sec.label), env, "select", 1)
             s2  == AutoPass(s1, Strip(sec.label), env, "radio", 1)
             s3  == AutoPass(s2, Strip(sec.label), env, "number", 1)
             s4  == AutoPass(s3, Strip(sec.label), env, "text", 1)
         IN  AutoSections([sections |-> [st.sections EXCEPT ![j].fields = s4.fields],
                           crashed  |-> s4.crashed], env, j + 1)

\* What one pass of the wizard loop does, lines 222-349:
\*   exit     "continue", "break", or "crash" when a call raised
\*   click    the button clicked ("escape" for the key), or "none"
\*   sections the sections of the modal afterwards
AutoOutcome(exit, click, sections) == [exit |-> exit, click |-> click, sections |-> sections]

AutoLoopBody(m, env) ==
    LET txt == Lower(Strip(m.header)) IN
    IF env.raises # "none" THEN AutoOutcome("crash", "none", m.sections)
    ELSE IF ContainsAny(txt, AutoContactWords)
    THEN IF StrictClick(m.buttons, NEXT_BTN)
         THEN AutoOutcome("continue", "next", m.sections)
         ELSE AutoOutcome("crash", "none", m.sections)
    ELSE IF ContainsAny(txt, AutoQuestionWords)
    THEN LET st == AutoSections([sections |-> m.sections, crashed |-> FALSE], env.fields, 1)
             nx == StrictVisible(m.buttons, NEXT_BTN)
         IN  IF st.crashed \/ nx = "raise" THEN AutoOutcome("crash", "none", st.sections)
             ELSE IF nx = "yes" THEN AutoOutcome("continue", "next", st.sections)
             ELSE IF StrictClick(m.buttons, REVIEW_BTN)
                  THEN AutoOutcome("continue", "review", st.sections)
                  ELSE AutoOutcome("crash", "none", st.sections)
    ELSE LET sb == StrictVisible(m.buttons, SUBMIT_BTN)
             nx == StrictVisible(m.buttons, NEXT_BTN)
             cancel == Positions(m.buttons,
                         LAMBDA b : Matches(b, HasText(<<"Cancel">>))
                                    \/ Matches(b, HasText(<<"Dismiss">>)), 1)
         IN  IF sb = "raise" THEN AutoOutcome("crash", "none", m.sections)
             ELSE IF sb = "yes" THEN AutoOutcome("break", "submit", m.sections)
             ELSE IF nx = "raise" THEN AutoOutcome("crash", "none", m.sections)
             ELSE IF nx = "yes" THEN AutoOutcome("continue", "next", m.sections)
             ELSE IF cancel = <<>> THEN AutoOutcome("break", "escape", m.sections)
             ELSE IF m.buttons[cancel[1]].visible
                  THEN AutoOutcome("break", "cancel", m.sections)
                  ELSE AutoOutcome("crash", "none", m.sections)

\* one pass of the scroll loop, lines 181-188, or its end and line 189
AutoScroll ==
    /\ bot = "auto"
    /\ pc = "scroll"
    /\ \E c \in 0..MaxCards :
         /\ count' = c
         /\ IF c >= MAX_APPLIES \/ c = prev_count
            THEN /\ total' = Min(c, MAX_APPLIES)
                 /\ pc' = "job"
                 /\ UNCHANGED prev_count
            ELSE /\ prev_count' = c
                 /\ pc' = IF c = 0 THEN "crashed" ELSE pc
                 /\ UNCHANGED total
    /\ UNCHANGED <<bot, MAX_APPLIES, MODAL_TIMEOUT, scroll_attempts, i, title, company, link, job_start,
                   results, csv, row_jobs, job_wizard, runs, job_outcome>>
    /\ UNCHANGED <<browserVars, modalVars, fieldVars, emptyVars, pureVars>>

\* the job of index i up to the wizard loop, lines 193-220: the job may have
\* no Easy Apply button, a browser call may raise and end the run
AutoOpenJob ==
    /\ bot = "auto"
    /\ pc = "job"
    /\ JobsLeft(i, total)
    /\ \E o \in {"no_apply", "error", "modal"}, card \in {CardAt(i)}, w \in WizardScripts :
         CASE o = "modal" ->
                /\ title' = IF card.title = None
                            THEN << "company", " ", "title", " ", "hidden" >>
                            ELSE Strip(card.title)
                /\ company' = IF card.company = None
                              THEN << "company", " ", "name", " ", "hidden" >>
                              ELSE Strip(card.company)
                /\ link' = card.href
                /\ modal' = Head(w)
                /\ wizard' = Tail(w)
                /\ job_wizard' = w
                /\ job_start' = clock
                /\ pc' = "wizard"
                /\ UNCHANGED i
           [] o = "no_apply" ->
                /\ i' = i + 1
                /\ UNCHANGED <<title, company, link, modal, wizard, job_wizard, job_start, pc>>
           [] o = "error" ->
                /\ pc' = "crashed"
                /\ UNCHANGED <<title, company, link, modal, wizard, job_wizard, job_start, i>>
    /\ UNCHANGED <<bot, MAX_APPLIES, MODAL_TIMEOUT, count, prev_count, scroll_attempts, total, results, csv,
                   row_jobs, runs, job_outcome, clock>>
    /\ UNCHANGED <<modalVars, fieldVars, emptyVars, pureVars>>

\* one pass of the wizard loop, lines 221-351
AutoWizardPass ==
    /\ bot = "auto"
    /\ pc = "wizard"
    /\ \E env \in [raises : {"none", "error"}, fields : FieldEnvsOf(modal)] :
       \E out \in {AutoLoopBody(modal, env)} :
         LET m2 == [modal EXCEPT !.sections = out.sections]
         IN  /\ pc' = CASE out.exit = "continue" -> "wizard"
                        [] out.exit = "break"    -> "record"
                        [] out.exit = "crash"    -> "crashed"
             /\ \E m3 \in Reactions(m2, out.click, {}) :
                  /\ modal' = m3
                  /\ wizard' = IF out.click \in {"next", "review", "submit"} /\ wizard # <<>>
                               THEN Tail(wizard) ELSE wizard
    /\ UNCHANGED <<bot, MAX_APPLIES, MODAL_TIMEOUT, count, prev_count, scroll_attempts, total, i, title,
                   company, link, job_start, results, csv, row_jobs, job_wizard, runs, job_outcome>>
    /\ UNCHANGED <<clock, modalVars, fieldVars, emptyVars, pureVars>>

\* after the wizard loop, lines 354-366: the row of the job
AutoRecordJob ==
    /\ bot = "auto"
    /\ pc = "record"
    /\ results' = Append(results, AutoResultRow(title, company, link, job_start, clock))
    /\ row_jobs' = Append(row_jobs, [job |-> i, wizard |-> job_wizard])
    /\ i' = i + 1
    /\ pc' = "job"
    /\ UNCHANGED <<bot, MAX_APPLIES, MODAL_TIMEOUT, count, prev_count, scroll_attempts, total, title, company,
                   link, job_start, csv, job_wizard, runs, job_outcome>>
    /\ UNCHANGED <<browserVars, modalVars, fieldVars, emptyVars, pureVars>>

\* after the last job, lines 370-376: the rows go to the file
AutoWriteCsv ==
    /\ bot = "auto"
    /\ pc = "job"
    /\ ~JobsLeft(i, total)
    /\ csv' = AppendCsv(csv, AutoFieldnames, results)
    /\ pc' = "end"
    /\ UNCHANGED <<bot, MAX_APPLIES, MODAL_TIMEOUT, count, prev_count, scroll_attempts, total, i, title,
                   company, link, job_start, results, row_jobs, job_wizard, runs, job_outcome>>
    /\ UNCHANGED <<browserVars, modalVars, fieldVars, emptyVars, pureVars>>

---------------------------------------------------------------------------
(* Runs of the two bots on one output file *)

Bots == {"improved", "auto"}

\* int(os.getenv("MAX_APPLIES", "5")): any integer, here a small one
ConfigApplies == (-1)..MaxApplies

\* main starts with results = [] and reaches the job list
\* int(os.getenv("MODAL_TIMEOUT", "300")), line 32: any integer, here the
\* default and its double
ConfigTimeouts == { DEFAULT_MAX_DURATION, 2 * DEFAULT_MAX_DURATION }

StartOfRun ==
    /\ pc = "scroll"
    /\ count = 0
    /\ prev_count = 0
    /\ scroll_attempts = 0
    /\ total = 0
    /\ i = 0
    /\ title = <<>>
    /\ company = <<>>
    /\ link = <<>>
    /\ job_start = 0
    /\ results = <<>>
    /\ row_jobs = <<>>
    /\ job_wizard = <<>>

InitBots ==
    /\ bot \in Bots
    /\ MAX_APPLIES \in ConfigApplies
    /\ MODAL_TIMEOUT \in ConfigTimeouts
    /\ StartOfRun
    /\ csv = NoFile
    /\ runs = 1
    /\ job_outcome = "none"
    /\ IdleModal
    /\ IdleFields
    /\ IdleEmpty
    /\ IdlePure

\* a bot is started again after a run has ended, with the file as it is
NewRun ==
    /\ pc \in {"end", "crashed"}
    /\ runs < MaxRuns
    /\ runs' = runs + 1
    /\ job_outcome' = "none"
    /\ bot' \in Bots
    /\ MAX_APPLIES' \in ConfigApplies
    /\ MODAL_TIMEOUT' \in ConfigTimeouts
    /\ pc' = "scroll"
    /\ count' = 0
    /\ prev_count' = 0
    /\ scroll_attempts' = 0
    /\ total' = 0
    /\ i' = 0
    /\ title' = <<>>
    /\ company' = <<>>
    /\ link' = <<>>
    /\ job_start' = 0
    /\ results' = <<>>
    /\ row_jobs' = <<>>
    /\ job_wizard' = <<>>
    /\ modal' = Closed
    /\ wizard' = <<>>
    /\ UNCHANGED <<csv, clock, modalVars, fieldVars, emptyVars, pureVars>>

NextBots ==
    \/ Scroll \/ OpenJob \/ LoopHead \/ Body \/ Tick \/ RecordJob \/ WriteCsv
    \/ AutoScroll \/ AutoOpenJob \/ AutoWizardPass \/ AutoRecordJob \/ AutoWriteCsv
    \/ NewRun

SpecBots == InitBots /\ [][NextBots]_vars

---------------------------------------------------------------------------
(* Claims about process_modal_with_timeout *)

\* C1: process_modal_with_timeout terminates whatever the modal does: the
\* loop never runs more than max_loops = 20 times and the call returns.
C1_Terminates ==
    /\ [](loop_count <= max_loops)
    /\ <>(mpc = "done" /\ result \in {"True", "False"})

\* a call that ended because the loop ran 20 times
C1_Witness == mpc = "done" /\ loop_count = max_loops /\ exit_reason = "max_loops"

\* C2: when the state string read in a pass is already in seen_states, the
\* pass clicks nothing and fills nothing, the modal is left as it is and the
\* call returns False.
C2_DuplicateStops ==
    [][(mpc = "body" /\ mpc' # mpc /\ current_state' # <<>> /\ current_state' \in seen_states)
         => (/\ acted' = NoOps
             /\ modal' = modal
             /\ mpc' = "done"
             /\ result' = "False")]_vars

\* a call that returned False in a later pass because the state was seen before
C2_Witness ==
    /\ mpc = "done" /\ exit_reason = "duplicate" /\ result = "False"
    /\ loop_count >= 2 /\ current_state \in seen_states

\* C3 as stated: once max_duration seconds have elapsed, no step of the call
\* clicks a button or fills a field, and the call does not return True.
C3_NothingAfterTimeLimit ==
    [][(mpc \in {"loop", "body"} /\ clock - start_time >= max_duration)
         => (/\ acted' = acted \/ acted' = NoOps
             /\ mpc' = "done" => result' = "False")]_vars

\* C3 amended: the time limit is tested at the top of each pass only.  When
\* max_duration seconds have elapsed at that test, the call starts no further
\* pass, clicks nothing, fills nothing and returns False.
C3_NoPassAfterTimeLimit ==
    [][(mpc = "loop" /\ clock - start_time >= max_duration)
         => (/\ acted' = acted \/ acted' = NoOps
             /\ modal' = modal
             /\ mpc' # mpc => (mpc' = "done" /\ result' = "False"))]_vars

\* a call that returned False because of the time limit after at least one pass
C3_Witness ==
    /\ mpc = "done" /\ exit_reason = "timeout" /\ result = "False"
    /\ loop_count >= 1 /\ loop_count < max_loops
    /\ clock - start_time >= max_duration

---------------------------------------------------------------------------
(* Claims about the rows of results and the output file *)

HasVisibleButton(p, words) ==
    \E k \in DOMAIN p.buttons :
        p.buttons[k].visible /\ ContainsAny(Lower(p.buttons[k].text), words)

\* a wizard of distinct pages, each with a visible Next or Review button,
\* followed by a page with a visible Submit button
WellFormed(w) ==
    /\ w # <<>>
    /\ \A k \in DOMAIN w : w[k].visible
    /\ \A k, l \in DOMAIN w :
         k # l => get_modal_state(w[k], FALSE) # get_modal_state(w[l], FALSE)
    /\ \A k \in 1..(Len(w) - 1) : HasVisibleButton(w[k], { <<"next">>, <<"review">> })
    /\ HasVisibleButton(w[Len(w)], { <<"submit">> })

\* C4: in main of the improved bot, the row recorded for a job whose modal is
\* visible and whose wizard is well formed has Status 'Success'.
C4_WellFormedSuccess ==
    \A k \in DOMAIN results :
        (bot = "improved" /\ WellFormed(row_jobs[k].wizard))
          => results[k].Status = << "Success" >>

RowsInJobOrder ==
    /\ Len(row_jobs) = Len(results)
    /\ \A k \in DOMAIN row_jobs : row_jobs[k].job >= 0 /\ row_jobs[k].job < total
    /\ \A k, l \in DOMAIN row_jobs : k < l => row_jobs[k].job < row_jobs[l].job

\* C5 as stated: each row of results of the improved bot is the row of one
\* job index below total, no index has two rows, and len(results) <= total in
\* every state.
C5_RowsAtMostTotal ==
    bot = "improved" => (RowsInJobOrder /\ Len(results) <= total)

\* C5 amended: a row is appended only when the traversal called for job i has
\* returned, it is the row of job i < total, no index has two rows, and
\* len(results) <= max(total, 0): total is negative when MAX_APPLIES is.
C5_RowPerTraversedJob ==
    /\ [](bot = "improved" =>
            (RowsInJobOrder /\ Len(results) <= (IF total < 0 THEN 0 ELSE total)))
    /\ [][(bot = "improved" /\ runs' = runs /\ results' # results)
            => /\ pc = "traverse" /\ mpc = "done" /\ result \in {"True", "False"}
               /\ i < total
               /\ Len(results') = Len(results) + 1
               /\ SubSeq(results', 1, Len(results)) = results
               /\ row_jobs'[Len(results')].job = i]_vars

C5_Witness ==
    /\ bot = "improved" /\ pc = "end"
    /\ total = 2 /\ Len(results) = 2
    /\ row_jobs[1].job = 0 /\ row_jobs[2].job = 1

SixFields  == { "Title", "Company", "Link", "DateApplied", "Runtime", "Status" }
FiveFields == { "Title", "Company", "Link", "DateApplied", "Runtime" }

IsHeader(line) == line \in { HeaderLine(fieldnames), HeaderLine(AutoFieldnames) }

\* C7: the write at the end of a run keeps the lines of the file and puts the
\* new ones after them, one per row of results, with the header before them
\* exactly when the file did not exist; so the file has exactly one header
\* line, the first one.
C7_AppendOnlyOneHeader ==
    /\ [][csv' # csv =>
            LET old == Len(csv.lines)
                hdr == IF csv.exists THEN 0 ELSE 1
            IN  /\ csv'.exists
                /\ Len(csv'.lines) = old + hdr + Len(results)
                /\ SubSeq(csv'.lines, 1, old) = csv.lines
                /\ hdr = 1 => IsHeader(csv'.lines[old + 1])
                /\ \A k \in (old + hdr + 1)..Len(csv'.lines) : ~IsHeader(csv'.lines[k])]_vars
    /\ [](csv.exists =>
            /\ csv.lines # <<>>
            /\ IsHeader(csv.lines[1])
            /\ \A k \in 2..Len(csv.lines) : ~IsHeader(csv.lines[k]))

C7_Witness ==
    /\ runs = 2 /\ bot = "improved" /\ pc = "end"
    /\ Len(results) >= 1
    /\ Len(csv.lines) >= 3 + Len(results)

---------------------------------------------------------------------------
(* Calls of process_form_fields and of is_field_empty on their own *)

\* process_form_fields is about to be called on a section, in a browser that
\* will behave as fenv says
InitFields ==
    /\ section \in Sections(MaxFields)
    /\ fenv \in FieldEnvs(section)
    /\ fpc = "call"
    /\ did_fill = FALSE
    /\ asked = {}
    /\ IdleModal
    /\ IdleEmpty
    /\ IdlePure
    /\ IdleMain

NextFields == CallProcessFormFields

SpecFields == InitFields /\ [][NextFields]_vars

\* the characters of the values read: two of whitespace, two others
EmptyChars == { " ", "\t", "a", "0" }

\* what field.input_value() gives: a value, None, or an exception
Reads ==
    { ReadNone, ReadRaises }
      \cup { ReadOk(v) : v \in UNION { [1..m -> EmptyChars] : m \in 0..MaxLen } }

InitEmpty ==
    /\ field \in Reads
    /\ empty_ret = "none"
    /\ IdleModal
    /\ IdleFields
    /\ IdlePure
    /\ IdleMain

\* the call of is_field_empty(field), lines 103-109
CallIsFieldEmpty ==
    /\ empty_ret = "none"
    /\ empty_ret' = IF is_field_empty(field) THEN "True" ELSE "False"
    /\ UNCHANGED <<field, browserVars, modalVars, fieldVars, pureVars, mainVars>>

NextEmpty == CallIsFieldEmpty

SpecEmpty == InitEmpty /\ [][NextEmpty]_vars

---------------------------------------------------------------------------
(* Claims about process_form_fields and is_field_empty *)

Prefilled(f) == f.type \in {"text", "number", "select"} /\ Strip(f.value) # <<>>

\* C8 as stated: every text input, number input and select of the section
\* that holds a non-whitespace value before the call of process_form_fields
\* holds the same value after it.
C8_PrefilledNeverChanged ==
    [][(fpc = "call" /\ fpc' = "returned")
         => \A k \in DOMAIN section.fields :
              Prefilled(section.fields[k])
                => section'.fields[k].value = section.fields[k].value]_vars

\* C8 amended: a pre-filled select keeps its value, and so does a pre-filled
\* text or number input whose value the call can read; an input whose read
\* raises is taken for empty and filled, whatever it held, unless the fill
\* raises as well.
C8_ReadablePrefilledKept ==
    [][(fpc = "call" /\ fpc' = "returned")
         => \A k \in DOMAIN section.fields :
              LET f == section.fields[k] IN
              Prefilled(f) =>
                IF f.type = "select" \/ k \notin fenv.readFails \/ k \in fenv.fillFails
                THEN section'.fields[k].value = f.value
                ELSE did_fill' /\ section'.fields[k].value \in FilledValues]_vars

C8_Witness ==
    /\ fpc = "returned" /\ did_fill
    /\ Len(section.fields) = 2
    /\ section.fields[1] = Number(<<"2">>) /\ 1 \notin fenv.readFails
    /\ section.fields[2].type = "text" /\ section.fields[2].value # <<>>
    /\ 2 \in asked

SameGroup(fields, j, k) ==
    fields[j].type = "radio" /\ fields[k].type = "radio" /\ fields[j].name = fields[k].name

\* C9: if a radio button of a group is checked before the call of
\* process_form_fields, whichever position it has in the group, the same
\* button is the checked one after the call and no answer is requested for
\* the group.
C9_SelectedGroupKept ==
    [][(fpc = "call" /\ fpc' = "returned")
         => \A k \in DOMAIN section.fields :
              (section.fields[k].type = "radio" /\ section.fields[k].checked)
                => /\ section'.fields[k].checked
                   /\ \A j \in DOMAIN section.fields :
                        SameGroup(section.fields, j, k)
                          => /\ j # k => ~section'.fields[j].checked
                             /\ j \notin asked']_vars

\* C10: is_field_empty returns True exactly when the value is missing, empty
\* or made only of whitespace, False when it has a non-whitespace character,
\* and True when reading the value raises.
C10_EmptyExactly ==
    empty_ret # "none" =>
        /\ empty_ret \in {"True", "False"}
        /\ (empty_ret = "True") <=>
             \/ field.status = "raise"
             \/ field.status = "none"
             \/ field.status = "ok" /\ \A k \in DOMAIN field.value : field.value[k] \in Whitespace

C10_Witness ==
    /\ empty_ret = "True"
    /\ field.status = "ok" /\ Len(field.value) = MaxLen
    /\ \A k \in DOMAIN field.value : field.value[k] \in Whitespace

---------------------------------------------------------------------------
(* get_modal_state on two modals *)

\* the longest header or button text drawn
MaxText == 2

\* the characters of the headers and button texts drawn
StateChars == { "A", ":", " " }

StateTexts == UNION { [1..n -> StateChars] : n \in 0..MaxText }

\* a modal with a first header (none for the empty text) and at most one button
StateModals ==
    { Page(h, bs, <<>>) :
        h \in StateTexts,
        bs \in { <<>> } \cup { << Button(t, "button", <<>>, "", TRUE) >> : t \in StateTexts } }

InitState ==
    /\ call \in [m1 : StateModals, m2 : StateModals]
    /\ ppc = "call"
    /\ ret = <<>>
    /\ IdleModal
    /\ IdleFields
    /\ IdleEmpty
    /\ IdleMain

\* get_modal_state(modal) on the one modal and on the other, lines 292-315
CallGetModalState ==
    /\ ppc = "call"
    /\ ret' = [s1 |-> get_modal_state(call.m1, FALSE), s2 |-> get_modal_state(call.m2, FALSE)]
    /\ ppc' = "returned"
    /\ UNCHANGED <<call, browserVars, modalVars, fieldVars, emptyVars, mainVars>>

NextState == CallGetModalState

SpecState == InitState /\ [][NextState]_vars

\* C11: get_modal_state returns different state strings for two modals whose
\* first header texts differ, whatever their button texts are.
C11_HeadersDifferStatesDiffer ==
    ppc = "returned" =>
        (Strip(call.m1.header) # Strip(call.m2.header) => ret.s1 # ret.s2)


(***************************************************************************)
(* The answer functions called on their own: get_smart_fallback,           *)
(* answer_text_with_retry and answer_select_with_retry on drawn questions, *)
(* options, retry counts and behaviours of the language model.             *)
(***************************************************************************)
MaxWords   == 2
MaxRetries == 3
MaxCalls   == 3
MaxOptions == 2

\* the words of the groups of get_smart_fallback, some capitalised, and
\* words of no group
FallbackWords ==
    { "year", "experience", "salary", "number", "authorized", "eligible", "legal",
      "sponsor", "visa", "h1b", "relocate", "move", "willing", "start", "available",
      "notice", "degree", "education", "university", "cover", " ", "letter", "why",
      "interest", "Visa", "Why", "name", "s" }

Questions == UNION { [1..n -> FallbackWords] : n \in 0..MaxWords }

\* the questions the retry functions are called with: answered by
\* ANSWER_MAP, by a group of get_smart_fallback, or by neither
RetryQuestions == { <<"relocate">>, <<"Visa">>, <<"degree">>, <<"name">>,
                    <<"visa", " ", "sponsor", "ship", " ", "relocate">> }

TextOutcomes   == { LmRaises, Reply(<<"7">>), Reply(<<" ", "n", "/", "a", " ">>) }
SelectOutcomes == { LmRaises, Reply(<<"7">>), Reply(<<"No">>), Reply(<<" ", "yes", " ">>) }

LmRuns(outcomes, n) == UNION { [1..k -> outcomes] : k \in 0..n }

DrawnOptions ==
    UNION { [1..n -> { <<"Yes">>, <<"No">>, <<"No", "t", " ", "sure">>,
                       <<"Bachelor's", " ", "Degree">> }] :
            n \in 0..MaxOptions }

AnswerCalls ==
    [fn : {"get_smart_fallback"}, q : Questions]
    \cup [fn : {"answer_text_with_retry"}, q : RetryQuestions,
          max_retries : 0..MaxRetries, lm : LmRuns(TextOutcomes, MaxCalls)]
    \cup [fn : {"answer_select_with_retry"}, q : RetryQuestions, options : DrawnOptions,
          max_retries : 0..MaxRetries, lm : LmRuns(SelectOutcomes, MaxCalls - 1)]

InitAnswers ==
    /\ call \in AnswerCalls
    /\ ppc = "call"
    /\ ret = <<>>
    /\ IdleModal /\ IdleFields /\ IdleEmpty /\ IdleMain

CallGetSmartFallback ==
    /\ ppc = "call"
    /\ call.fn = "get_smart_fallback"
    /\ ret' = [value |-> get_smart_fallback(call.q), calls |-> 0]
    /\ ppc' = "returned"
    /\ UNCHANGED <<call, browserVars, modalVars, fieldVars, emptyVars, mainVars>>

CallAnswerText ==
    /\ ppc = "call"
    /\ call.fn = "answer_text_with_retry"
    /\ ret' = answer_text_with_retry(call.q, call.max_retries, call.lm)
    /\ ppc' = "returned"
    /\ UNCHANGED <<call, browserVars, modalVars, fieldVars, emptyVars, mainVars>>

CallAnswerSelect ==
    /\ ppc = "call"
    /\ call.fn = "answer_select_with_retry"
    /\ ret' = answer_select_with_retry(call.q, call.options, call.max_retries, call.lm)
    /\ ppc' = "returned"
    /\ UNCHANGED <<call, browserVars, modalVars, fieldVars, emptyVars, mainVars>>

NextAnswers == CallGetSmartFallback \/ CallAnswerText \/ CallAnswerSelect

SpecAnswers == InitAnswers /\ [][NextAnswers]_vars

Returned(fn) == ppc = "returned" /\ call.fn = fn

\* the calls of the language model among the first max_retries that succeed
Successes(lm, max_retries) == { n \in 1..max_retries : LmOutcome(lm, n).ok }

Least(S) == CHOOSE n \in S : \A m \in S : n <= m

\* C12: answer_text_with_retry(q, max_retries) always returns a text: it
\* calls the language model at most max_retries times, returns the stripped
\* answer of the first call that succeeds and calls no more after it, and
\* returns get_smart_fallback(q) when all max_retries calls fail, which
\* includes max_retries = 0.
C12_TextAnswerOrFallback ==
    Returned("answer_text_with_retry") =>
        LET ok == Successes(call.lm, call.max_retries) IN
        /\ ret.calls <= call.max_retries
        /\ ok # {} => /\ ret.calls = Least(ok)
                      /\ ret.value = Strip(call.lm[Least(ok)].content)
        /\ ok = {} => /\ ret.calls = call.max_retries
                      /\ ret.value = get_smart_fallback(call.q)

\* two calls failed, the third one answered
C12_Witness ==
    /\ Returned("answer_text_with_retry")
    /\ call.max_retries = 3
    /\ ret.calls = 3
    /\ ret.value = <<"n", "/", "a">>

\* all the calls failed and the fallback of the question was returned
C12_WitnessFallback ==
    /\ Returned("answer_text_with_retry")
    /\ call.max_retries = 2
    /\ ret.calls = 2
    /\ call.q = <<"Visa">>
    /\ ret.value = <<"No">>

\* C13: answer_select_with_retry(q, options) returns '' when options is
\* empty and otherwise an element of options on every path: the mapped
\* answer, the answer of the language model, an answer of the language model
\* that matches no option, and the failure of all retries, where it is the
\* first option containing get_smart_fallback(q) and options[0] when there
\* is none.
C13_SelectReturnsAnOption ==
    Returned("answer_select_with_retry") =>
        LET fallback == Lower(get_smart_fallback(call.q))
            fits     == { k \in DOMAIN call.options :
                            Contains(Lower(call.options[k]), fallback) }
        IN
        /\ call.options = <<>> => ret.value = <<>>
        /\ call.options # <<>> => ret.value \in Range(call.options)
        /\ ( /\ call.options # <<>>
             /\ MappedOption(ANSWER_MAP, call.q, call.options) = <<"None">>
             /\ call.max_retries >= 1
             /\ Successes(call.lm, call.max_retries) = {} )
           => ret.value = IF fits = {} THEN call.options[1] ELSE call.options[Least(fits)]

\* the language model gave an answer that matches no option
C13_Witness ==
    /\ Returned("answer_select_with_retry")
    /\ call.q = <<"name">>
    /\ call.options = << <<"Yes">>, <<"No">> >>
    /\ call.max_retries = 3
    /\ call.lm = << LmRaises, Reply(<<"7">>) >>
    /\ ret = [value |-> <<"Yes">>, calls |-> 2]

\* all the retries failed and the second option holds the fallback
C13_WitnessFallback ==
    /\ Returned("answer_select_with_retry")
    /\ call.q = <<"Visa">>
    /\ call.options = << <<"Yes">>, <<"No">> >>
    /\ call.max_retries = 2
    /\ call.lm = <<>>
    /\ ret = [value |-> <<"No">>, calls |-> 2]

\* the groups of words of the reference, in their order, with their answers
FallbackGroups == <<
    [words |-> { <<"year">>, <<"experience">>, <<"salary">>, <<"number">> },
     answer |-> <<"0">>],
    [words |-> { <<"authorized">>, <<"eligible">>, <<"legal">> },  answer |-> <<"Yes">>],
    [words |-> { <<"sponsor">>, <<"visa">>, <<"h1b">> },           answer |-> <<"No">>],
    [words |-> { <<"relocate">>, <<"move">>, <<"willing">> },      answer |-> <<"Yes">>],
    [words |-> { <<"start">>, <<"available">>, <<"notice">> },     answer |-> <<"Immediately">>],
    [words |-> { <<"degree">>, <<"education">>, <<"university">> },
     answer |-> <<"Bachelor's", " ", "Degree">>],
    [words |-> { <<"cover", " ", "letter">>, <<"why">>, <<"interest">> },
     answer |-> CoverSentence] >>

\* the groups with a word in the lower-cased question
MatchingGroups(question) ==
    { g \in DOMAIN FallbackGroups :
        \E w \in FallbackGroups[g].words : Contains(Lower(question), w) }

\* C14: get_smart_fallback returns a value for every question and equals
\* the reference: the answer of the first group, in the fixed order, that has
\* a word in the lower-cased question, and 'Yes' when no group has one.
C14_FallbackIsReference ==
    Returned("get_smart_fallback") =>
        LET groups == MatchingGroups(call.q) IN
        ret.value = IF groups = {} THEN <<"Yes">>
                    ELSE FallbackGroups[Least(groups)].answer

\* a capitalised word of the third group before a word of the first one
C14_Witness ==
    /\ Returned("get_smart_fallback")
    /\ call.q = <<"Visa", "year">>
    /\ ret.value = <<"0">>

\* the words cover and letter without the space between them are no group's
C14_WitnessNoGroup ==
    /\ Returned("get_smart_fallback")
    /\ call.q = <<"cover", "letter">>
    /\ ret.value = <<"Yes">>

(***************************************************************************)
(* The bots with their steps taken as long as one is possible: main runs   *)
(* its statements one after the other and the browser answers every call.  *)
(***************************************************************************)
SpecBotsFair ==
    /\ InitBots
    /\ [][NextBots]_vars
    /\ WF_vars(AutoScroll \/ AutoOpenJob \/ AutoWizardPass \/ AutoRecordJob \/ AutoWriteCsv)
    /\ WF_vars(Scroll \/ OpenJob \/ LoopHead \/ Body \/ RecordJob \/ WriteCsv)

\* C15: the wizard loop of main in automation.py ends for every behaviour
\* of the modal: it cannot go on clicking Next forever.
C15_AutoWizardEnds == (bot = "auto" /\ pc = "wizard") ~> (pc # "wizard")

---------------------------------------------------------------------------
(* Claims about what process_modal_with_timeout returns *)

\* the page the pass is about to read is a contact or resume page
OnContactPage ==
    modal.visible /\ ContainsAny(Lower(Strip(modal.header)), ContactWords)

\* C16: process_modal_with_timeout returns True only if it clicked a button
\* classified 'submit', and it returns right after that click; every other
\* exit returns False; on a page whose header contains 'contact info',
\* 'resume' or 'cv' it clicks no button classified 'submit'.
C16_TrueOnlyAfterSubmit ==
    [][/\ (mpc = "body" /\ mpc' # "body")
           => /\ acted'.click = "submit" <=> (mpc' = "done" /\ result' = "True")
              /\ (mpc' = "done" /\ acted'.click # "submit") => result' = "False"
              /\ OnContactPage => acted'.click # "submit"
       /\ (mpc = "loop" /\ mpc' = "done") => result' = "False"]_vars

\* a call that clicked Next on a contact page and later returned True
C16_Witness ==
    /\ mpc = "done" /\ result = "True" /\ acted.click = "submit"
    /\ loop_count >= 2
    /\ \E st \in seen_states : Contains(Lower(st), <<"contact", " ", "info">>)

\* a call that found only Submit on a contact page and returned False
C16_WitnessContactSubmit ==
    /\ mpc = "done" /\ result = "False" /\ exit_reason = "no_nav"
    /\ acted.click = "none"
    /\ OnContactPage
    /\ find_navigation_button(modal).type = "submit"

(***************************************************************************)
(* find_navigation_button called on its own, on modals whose buttons are   *)
(* drawn: visible and hidden ones, in any order.                           *)
(***************************************************************************)
MaxButtons == 3

Hidden(btn) == [btn EXCEPT !.visible = FALSE]

DrawnButtons ==
    { DismissBtn, NextBtn, ReviewBtn, SubmitBtn,
      Hidden(NextBtn), Hidden(ReviewBtn), Hidden(SubmitBtn),
      Button(<<"Save", " ", "and", " ", "continue">>, "submit", <<>>, "", TRUE) }

InitNav ==
    /\ call \in [fn : {"find_navigation_button"},
                 modal : { Page(<<>>, bs, <<>>) :
                           bs \in UNION { [1..n -> DrawnButtons] : n \in 0..MaxButtons } }]
    /\ ppc = "call"
    /\ ret = <<>>
    /\ IdleModal /\ IdleFields /\ IdleEmpty /\ IdleMain

CallFindNavigationButton ==
    /\ ppc = "call"
    /\ call.fn = "find_navigation_button"
    /\ ret' = find_navigation_button(call.modal)
    /\ ppc' = "returned"
    /\ UNCHANGED <<call, browserVars, modalVars, fieldVars, emptyVars, mainVars>>

NextNav == CallFindNavigationButton

SpecNav == InitNav /\ [][NextNav]_vars

\* some selector of the type matches a visible button of the modal
MatchesVisible(m, type) ==
    \E c \in DOMAIN button_configs :
        /\ button_configs[c].type = type
        /\ \E n \in DOMAIN button_configs[c].selectors, k \in DOMAIN m.buttons :
              /\ Matches(m.buttons[k], button_configs[c].selectors[n])
              /\ m.buttons[k].visible

\* C17: find_navigation_button ranks submit over review over next: it
\* returns 'submit' whenever a submit selector matches a visible button,
\* 'review' only when no submit selector does, 'next' only when neither a
\* submit nor a review selector does, and (None, 'none') exactly when no
\* selector matches a visible button.
C17_RanksByVisibleMatch ==
    Returned("find_navigation_button") =>
        /\ MatchesVisible(call.modal, "submit") => ret.type = "submit"
        /\ ret.type = "review" => ~MatchesVisible(call.modal, "submit")
        /\ ret.type = "next" => /\ ~MatchesVisible(call.modal, "submit")
                                /\ ~MatchesVisible(call.modal, "review")
        /\ (ret.btn = 0 /\ ret.type = "none")
             <=> \A t \in {"submit", "review", "next"} : ~MatchesVisible(call.modal, t)

(***************************************************************************)
(* process_modal_with_timeout called in the declared order on a wizard     *)
(* that advances: every page but the last one shows Next or Review, the    *)
(* last one shows Submit, and a click leads to the page that follows.      *)
(***************************************************************************)
MaxPages  == 3
LongPages == 19

WizardHeaders == { ContactHeader, QuestionHeader, OtherHeader, <<"Resume">> }

\* the pages before the last one, and the last ones
InnerPages == { Page(h, <<DismissBtn, b>>, <<>>) : h \in WizardHeaders, b \in {NextBtn, ReviewBtn} }
LastPages  == { Page(h, <<DismissBtn, SubmitBtn>>, <<>>) : h \in WizardHeaders }

PairwiseDifferent(pages) ==
    \A a, b \in DOMAIN pages :
        a # b => get_modal_state(pages[a], FALSE) # get_modal_state(pages[b], FALSE)

LongWizard ==
    [n \in 1..LongPages |->
        IF n < LongPages THEN StepPage(n)
        ELSE Page(OtherHeader, <<DismissBtn, SubmitBtn>>, <<>>)]

AdvancingWizards ==
    { LongWizard } \cup
    { w \in UNION { [1..n -> InnerPages \cup LastPages] : n \in 1..MaxPages } :
        /\ w[Len(w)] \in LastPages
        /\ \A n \in 1..(Len(w) - 1) : w[n] \in InnerPages
        /\ PairwiseDifferent(w) }

\* the state after lines 476-479 of a call on the first page of a wizard
InitWizard ==
    /\ \E w \in AdvancingWizards :
          /\ modal = Head(w)
          /\ wizard = Tail(w)
    /\ clock = 0
    /\ args = DeclaredOrder
    /\ mpc = "loop"
    /\ start_time = clock
    /\ max_duration = DEFAULT_MAX_DURATION
    /\ seen_states = {}
    /\ loop_count = 0
    /\ current_state = <<>>
    /\ acted = NoOps
    /\ caught = {}
    /\ exit_reason = ""
    /\ result = "none"
    /\ IdleFields /\ IdleEmpty /\ IdlePure /\ IdleMain

SpecWizardFair ==
    InitWizard /\ [][NextModal]_vars /\ WF_vars(LoopHead) /\ WF_vars(Body)

\* no call on the browser raises during the call and the time limit is not
\* reached: the call does not end for one of these reasons
Undisturbed == exit_reason \notin {"exception", "timeout", "duplicate"} /\ caught = {}

Started == mpc = "loop" /\ loop_count = 0

\* the last page of the wizard the call is on
LastPage == IF wizard = <<>> THEN modal ELSE wizard[Len(wizard)]

Submitted == mpc = "done" /\ result = "True" /\ acted.click = "submit"

\* C18 as stated: on a wizard of fewer than 20 pages with pairwise different
\* state strings that advances to a last page with a visible Submit button,
\* the call eventually clicks Submit and returns True, whatever the headers
\* of the pages are.
C18_SubmitsWhateverHeaders == ([]Undisturbed) => (Started ~> Submitted)

\* a wizard of three pages ended on its last page, a resume page with Submit,
\* which the call left alone
ContactLastLeft ==
    /\ mpc = "done" /\ result = "False" /\ exit_reason = "no_nav"
    /\ loop_count = 3
    /\ wizard = <<>>
    /\ modal \in LastPages
    /\ modal.header = <<"Resume">>

---------------------------------------------------------------------------
(* Claims about the call of process_modal_with_timeout in main *)

\* main of linkedin_easy_apply_improved.py is inside its call of line 758
InCall == bot = "improved" /\ pc = "traverse"

\* C19: the time limit of the call of process_modal_with_timeout in main
\* equals the configured MODAL_TIMEOUT, for every configured value.
C19_LimitIsModalTimeout == InCall => max_duration = MODAL_TIMEOUT

\* C20: whenever process_modal_with_timeout returns False while the modal is
\* still visible, it has first tried to close the modal (a click on a cancel
\* button or the Escape key), so no modal of job i is open when main starts
\* job i+1.
C20_ClosedBeforeNextJob ==
    /\ (InCall /\ mpc = "done" /\ result = "False" /\ modal.visible)
          => acted.click \in {"cancel", "escape"}
    /\ (bot = "improved" /\ pc = "job" /\ i >= 1) => ~modal.visible

(***************************************************************************)
(* process_modal_with_timeout called in the declared order on a wizard     *)
(* whose pages are all different pages: two of them may show the same      *)
(* header and the same buttons and differ in their questions.              *)
(***************************************************************************)
\* a questions page with Next: the pages of this kind differ in their field
StepQuestions == { Page(QuestionHeader, <<DismissBtn, NextBtn>>, <<QuestionSection(v)>>) :
                   v \in { <<>>, <<"a">>, <<"b">> } }

\* wizards that show no page twice and end on a page with Submit
DistinctWizards ==
    { w \in UNION { [1..n -> StepQuestions \cup InnerPages \cup LastPages] : n \in 1..MaxPages } :
        /\ w[Len(w)] \in LastPages
        /\ \A n \in 1..(Len(w) - 1) : w[n] \notin LastPages
        /\ \A a, b \in DOMAIN w : a # b => w[a] # w[b] }

\* the state after lines 476-479 of a call on the first page of such a wizard
InitDistinct ==
    /\ \E w \in DistinctWizards :
          /\ modal = Head(w)
          /\ wizard = Tail(w)
    /\ clock = 0
    /\ args = DeclaredOrder
    /\ mpc = "loop"
    /\ start_time = clock
    /\ max_duration = DEFAULT_MAX_DURATION
    /\ seen_states = {}
    /\ loop_count = 0
    /\ current_state = <<>>
    /\ acted = NoOps
    /\ caught = {}
    /\ exit_reason = ""
    /\ result = "none"
    /\ IdleFields /\ IdleEmpty /\ IdlePure /\ IdleMain

SpecDistinct == InitDistinct /\ [][NextModal]_vars

\* C21: when every click moves the wizard to a page it has not shown before
\* in this call (pages may share the header and the first five button
\* texts), the call never takes the duplicate-state exit.
C21_NoDuplicateWhenAdvancing == ~(mpc = "done" /\ exit_reason = "duplicate")

---------------------------------------------------------------------------
(* Claims about the exceptions raised inside the loop *)

\* the operations whose exception reaches the handler of lines 579-581
OuterOperations == {"is_visible", "header", "click"}

C22_WitnessCaughtInside ==
    /\ mpc = "done" /\ result = "True"
    /\ caught = {"fields"}

(***************************************************************************)
(* One run of main of linkedin_easy_apply_improved.py, from the job list   *)
(* on, with its steps taken as long as one is possible.                    *)
(***************************************************************************)
InitJobs ==
    /\ bot = "improved"
    /\ MAX_APPLIES \in ConfigApplies
    /\ MODAL_TIMEOUT \in ConfigTimeouts
    /\ StartOfRun
    /\ csv = NoFile
    /\ runs = 1
    /\ job_outcome = "none"
    /\ IdleModal
    /\ IdleFields
    /\ IdleEmpty
    /\ IdlePure

NextJobs == Scroll \/ OpenJob \/ LoopHead \/ Body \/ Tick \/ RecordJob \/ WriteCsv

SpecJobsFair ==
    /\ InitJobs
    /\ [][NextJobs]_vars
    /\ WF_vars(Scroll \/ OpenJob \/ LoopHead \/ Body \/ RecordJob \/ WriteCsv)

---------------------------------------------------------------------------
(* Claims about the job loop of main in linkedin_easy_apply_improved.py *)

\* the handling of the job before index i raised and main is back at the
\* head of the job loop
JobRaised == bot = "improved" /\ pc = "job" /\ job_outcome = "error"

\* C23: an exception raised while main handles job i is isolated to that
\* job: the step that meets it records no row and moves to job i + 1; the
\* rows recorded before stay in results unchanged; the loop index advances
\* one by one, so that every later job is attempted; and the CSV write still
\* takes place, after the last index, with all the rows recorded.
C23_ExceptionIsolated ==
    /\ [][(bot = "improved" /\ runs' = runs)
            => /\ Len(results') >= Len(results)
               /\ SubSeq(results', 1, Len(results)) = results
               /\ i' \in {i, i + 1}
               /\ (pc = "job" /\ i' # i /\ job_outcome' = "error")
                     => (results' = results /\ pc' = "job")
               /\ (pc = "job" /\ pc' = "end")
                     => /\ i = (IF total > 0 THEN total ELSE 0)
                        /\ csv' = AppendCsv(csv, fieldnames, results)]_vars
    /\ JobRaised ~> (bot = "improved" /\ pc = "end")

\* the first job was recorded, the second one raised, and the file holds the
\* header and the row of the first job
C23_Witness ==
    /\ bot = "improved" /\ pc = "end" /\ runs = 1
    /\ job_outcome = "error"
    /\ total = 2 /\ i = 2
    /\ Len(results) = 1 /\ row_jobs[1].job = 0
    /\ csv.lines = << HeaderLine(fieldnames) >> \o RowLines(fieldnames, results)

\* the first job raised and the second one was recorded
C23_WitnessLaterJob ==
    /\ bot = "improved" /\ pc = "end" /\ runs = 1
    /\ total = 2 /\ i = 2
    /\ Len(results) = 1 /\ row_jobs[1].job = 1

\* main has left the scroll loop
PastScroll == bot = "improved" /\ pc \in {"job", "traverse", "end"}

\* C24: main attempts at most MAX_APPLIES jobs in one run: the job loop runs
\* for exactly total = min(count, MAX_APPLIES) indices, where count is the
\* number of job cards seen by the last poll of the scroll loop, and it
\* attempts no job when MAX_APPLIES <= 0.
C24_AtMostMaxApplies ==
    PastScroll =>
        /\ total = (IF count < MAX_APPLIES THEN count ELSE MAX_APPLIES)
        /\ i >= 0
        /\ i <= (IF total > 0 THEN total ELSE 0)
        /\ Len(results) <= i
        /\ pc = "traverse" => i < total
        /\ pc = "end" => i = (IF total > 0 THEN total ELSE 0)
        /\ MAX_APPLIES <= 0
              => (i = 0 /\ pc # "traverse" /\ job_outcome = "none" /\ results = <<>>)

\* the list showed two cards and MAX_APPLIES is 1: one job was attempted
C24_Witness ==
    /\ PastScroll /\ pc = "end"
    /\ MAX_APPLIES = 1 /\ count = 2 /\ total = 1 /\ i = 1
    /\ job_outcome = "modal" /\ Len(results) = 1

\* MAX_APPLIES is -1: the run ended without a job
C24_WitnessNone ==
    /\ PastScroll /\ pc = "end"
    /\ MAX_APPLIES = -1 /\ i = 0 /\ csv.exists

\* C25: the job-list scroll loop of main terminates for every sequence of
\* card counts the page reports (growing, constant, shrinking or
\* oscillating): main leaves the loop and reaches the job loop.
C25_ScrollLoopEnds == (bot = "improved" /\ pc = "scroll") ~> (bot = "improved" /\ pc = "job")

---------------------------------------------------------------------------
(* Claims about the values process_form_fields fills in *)

\* the label of a number input makes '0' the answer, line 421
ZeroByLabel(label) ==
    ContainsAny(Lower(Strip(label)), { <<"year">>, <<"experience">>, <<"salary">> })

\* the value the claim gives for a number input of the section
NumberValue(label, lm) ==
    IF ZeroByLabel(label) THEN <<"0">>
    ELSE LET ans == answer_text_with_retry(Strip(label), DEFAULT_MAX_RETRIES, lm).value
         IN  IF IsDigit(ans) THEN ans ELSE <<"0">>

\* C26: every value process_form_fields fills into an input of type number
\* is a non-empty string of decimal digits: '0' when the label contains
\* 'year', 'experience' or 'salary', the answer of answer_text_with_retry
\* when that answer consists only of digits, and '0' for any other answer.
C26_NumberFillsAreDigits ==
    [][(fpc = "call" /\ fpc' = "returned")
         => \A k \in DOMAIN section.fields :
              LET f == section.fields[k]
                  v == section'.fields[k].value
                  read == IF k \in fenv.readFails THEN ReadRaises ELSE ReadOk(f.value)
              IN  f.type = "number" =>
                    /\ v # f.value => (IsDigit(v) /\ v # <<>> /\ did_fill')
                    /\ IF is_field_empty(read) /\ k \notin fenv.fillFails
                       THEN v = NumberValue(section.label, fenv.lm)
                       ELSE v = f.value]_vars

\* an empty number input under a label without the three words was filled
\* with the reply '7' of the language model
C26_Witness ==
    /\ fpc = "returned" /\ did_fill
    /\ ~ZeroByLabel(section.label)
    /\ \E k \in DOMAIN section.fields :
          /\ section.fields[k].type = "number"
          /\ section.fields[k].value = <<"7">>
          /\ k \in asked
          /\ fenv.lm = << Reply(<<"7">>) >>

\* a number input was filled with '0' for the reply 'n/a'
C26_WitnessNotDigits ==
    /\ fpc = "returned" /\ did_fill
    /\ ~ZeroByLabel(section.label)
    /\ fenv.lm = << Reply(<<"n", "/", "a">>) >>
    /\ \E k \in DOMAIN section.fields :
          /\ section.fields[k].type = "number"
          /\ section.fields[k].value = <<"0">>
          /\ k \in asked

---------------------------------------------------------------------------
(* Claims about ANSWER_MAP and the replies of the language model *)

\* some key of ANSWER_MAP is contained in the lower-cased question
KeyApplies(q) == \E n \in DOMAIN ANSWER_MAP : Contains(Lower(q), ANSWER_MAP[n].key)

\* the stripped reply of the first call of the language model that succeeds
FirstReply(lm, max_retries) == Strip(lm[Least(Successes(lm, max_retries))].content)

\* C27: when no ANSWER_MAP key applies and the reply of the language model
\* to answer_select_with_retry equals one of the options (ignoring case),
\* the option returned is that option, for every list of options in every
\* order.
C27_EqualReplyIsReturned ==
    (/\ Returned("answer_select_with_retry")
     /\ ~KeyApplies(call.q)
     /\ Successes(call.lm, call.max_retries) # {}
     /\ \E k \in DOMAIN call.options :
           Lower(call.options[k]) = Lower(FirstReply(call.lm, call.max_retries)))
    => Lower(ret.value) = Lower(FirstReply(call.lm, call.max_retries))

(***************************************************************************)
(* answer_select_with_retry called on its own, or process_form_fields      *)
(* called on a section.                                                    *)
(***************************************************************************)
InitMapped == InitAnswers \/ InitFields

NextMapped == NextAnswers \/ NextFields

SpecMapped == InitMapped /\ [][NextMapped]_vars

\* the keys of ANSWER_MAP contained in the question whose value some option
\* contains
KeysWithOption(q, options) ==
    { n \in DOMAIN ANSWER_MAP :
        /\ Contains(Lower(q), ANSWER_MAP[n].key)
        /\ \E k \in DOMAIN options : Contains(Lower(options[k]), Lower(ANSWER_MAP[n].val)) }

\* the keys of ANSWER_MAP contained in the lower-cased label
KeysIn(label) ==
    { n \in DOMAIN ANSWER_MAP : Contains(Lower(Strip(label)), ANSWER_MAP[n].key) }

\* C28: ANSWER_MAP takes precedence over the language model:
\* answer_select_with_retry makes no language-model call when the
\* lower-cased question contains a map key and some option contains that
\* key's value, and it returns the first such option for the first such key
\* in map order; process_form_fields fills an empty text field with the
\* value of the first map key contained in the label without a call of the
\* language model.
C28_MapBeforeModel ==
    [][/\ (ppc = "call" /\ ppc' = "returned" /\ call.fn = "answer_select_with_retry"
           /\ KeysWithOption(call.q, call.options) # {})
          => LET val == ANSWER_MAP[Least(KeysWithOption(call.q, call.options))].val
                 fits == { k \in DOMAIN call.options :
                           Contains(Lower(call.options[k]), Lower(val)) }
             IN  /\ ret'.calls = 0
                 /\ ret'.value = call.options[Least(fits)]
       /\ (fpc = "call" /\ fpc' = "returned")
          => \A k \in DOMAIN section.fields :
               LET f == section.fields[k]
                   read == IF k \in fenv.readFails THEN ReadRaises ELSE ReadOk(f.value)
               IN  (f.type = "text" /\ is_field_empty(read) /\ KeysIn(section.label) # {})
                     => /\ k \notin asked'
                        /\ k \notin fenv.fillFails
                              => /\ section'.fields[k].value
                                      = ANSWER_MAP[Least(KeysIn(section.label))].val
                                 /\ did_fill']_vars

\* the question holds the keys 'relocate' and 'visa sponsorship', the only
\* option fits the second key, and the language model was ready to reply
C28_Witness ==
    /\ Returned("answer_select_with_retry")
    /\ call.q = <<"visa", " ", "sponsor", "ship", " ", "relocate">>
    /\ call.options = << <<"No", "t", " ", "sure">>, <<"No">> >>
    /\ call.max_retries = MaxRetries
    /\ call.lm = << Reply(<<" ", "yes", " ">>) >>
    /\ ret = [value |-> <<"No", "t", " ", "sure">>, calls |-> 0]

\* an empty text field under the label 'Years of experience' was filled with
\* '0' and no answer was asked for it
C28_WitnessText ==
    /\ fpc = "returned" /\ did_fill
    /\ KeysIn(section.label) # {}
    /\ fenv.lm = << Reply(<<"7">>) >>
    /\ \E k \in DOMAIN section.fields :
          /\ section.fields[k].type = "text"
          /\ section.fields[k].value = <<"0">>
          /\ k \notin asked

(***************************************************************************)
(* process_modal_with_timeout called in the declared order on a modal      *)
(* whose first page shows a text field, whatever its header is.            *)
(***************************************************************************)
FramedHeaders ==
    { ContactHeader, QuestionHeader, OtherHeader, <<"Resume">>, <<>>,
      <<"Resume", " ", "question", "s">> }

FramedPages ==
    { Page(h, bs, <<QuestionSection(v)>>) :
        h \in FramedHeaders,
        bs \in { <<DismissBtn, NextBtn>>, <<DismissBtn, SubmitBtn>>, <<DismissBtn>>, <<>> },
        v \in { <<>>, <<"a">> } }

\* the state after lines 476-479 of a call on such a page
InitFramed ==
    /\ modal \in FramedPages
    /\ wizard = <<>>
    /\ clock = 0
    /\ args = DeclaredOrder
    /\ mpc = "loop"
    /\ start_time = clock
    /\ max_duration = DEFAULT_MAX_DURATION
    /\ seen_states = {}
    /\ loop_count = 0
    /\ current_state = <<>>
    /\ acted = NoOps
    /\ caught = {}
    /\ exit_reason = ""
    /\ result = "none"
    /\ IdleFields /\ IdleEmpty /\ IdlePure /\ IdleMain

SpecFramed == InitFramed /\ [][NextModal]_vars

\* the page the pass is about to read is one the claim calls a questions
\* page: its first header contains 'question', 'education', 'work',
\* 'additional' or 'experience' and none of 'contact info', 'resume', 'cv'
OnQuestionsPage ==
    /\ modal.visible
    /\ ContainsAny(Lower(Strip(modal.header)),
                   { <<"question">>, <<"education">>, <<"work">>, <<"additional">>,
                     <<"experience">> })
    /\ ~ContainsAny(Lower(Strip(modal.header)),
                    { <<"contact", " ", "info">>, <<"resume">>, <<"cv">> })

C29_WitnessEscape ==
    /\ mpc = "done" /\ loop_count = 1
    /\ acted = [click |-> "escape", filled |-> FALSE]
    /\ modal = Page(OtherHeader, <<>>, <<QuestionSection(<<>>)>>)

\* a questions page with an empty text field: the field was filled
C29_WitnessQuestions ==
    /\ mpc = "done" /\ loop_count = 1
    /\ acted.filled /\ acted.click = "none"
    /\ modal = Page(QuestionHeader, <<DismissBtn>>, <<QuestionSection(<<"Yes">>)>>)

---------------------------------------------------------------------------
(* Claims about the fallback for sponsorship questions *)

\* C30: get_smart_fallback returns 'No' for every question that contains
\* 'sponsor', 'visa' or 'h1b' (ignoring case), whatever else the question
\* contains, so the fallback never answers 'Yes' or '0' to a sponsorship
\* question.
C30_SponsorshipIsNo ==
    (/\ Returned("get_smart_fallback")
     /\ ContainsAny(Lower(call.q), { <<"sponsor">>, <<"visa">>, <<"h1b">> }))
    => ret.value = <<"No">>
====
